---- MODULE Spec2Model ----
(***************************************************************************)
(* TeleVault: the worker pool (TelegramWorkerPool) and the chunk manager   *)
(* (ChunkManager) of backend/app/telegram_worker.py as a state machine.    *)
(*                                                                         *)
(* Spec        the pool under concurrent upload_chunk / download_chunk /   *)
(*             delete_chunk calls issued by independent callers.           *)
(* SpecStream  one stream_upload followed by one stream_download of the    *)
(*             descriptors it returned, with no other user of the pool.    *)
(* SpecDelete  one delete_file request (routers/files.py), with no other   *)
(*             user of the pool.                                           *)
(*                                                                         *)
(* SpecFetch   one stream_download of stored documents whose fetches all   *)
(*             succeed, the consumer pulling to the end (fair).            *)
(* SpecDownload  the same download with fetches that can end in a fault    *)
(*             and a consumer that can stop iterating.                     *)
(* SpecUpload  one upload_file request (routers/files.py) over             *)
(*             stream_upload.                                              *)
(* SpecCache   one PermissionCache (cache.py) under any sequence of get,   *)
(*             set, invalidate and clear calls while the clock advances.   *)
(* SpecAccess  check_storage_permission (permissions.py) and the storage   *)
(*             endpoints (routers/storage.py) served by two threads.       *)
(* SpecAccessSeq  the same requests, executed one at a time.               *)
(* SpecFile    one upload_file request followed by one download_file       *)
(*             request for the file it stored.                             *)
(* SpecLogger  the activity logger (activity_logger.py): the producers,    *)
(*             the consumer thread and stop_activity_logger.               *)
(*                                                                         *)
(* Scheduling is asyncio's: one event loop, a coroutine runs without       *)
(* interruption between two awaits.  An asyncio.Lock that is free and has  *)
(* no waiter is taken without suspending; otherwise the caller queues and  *)
(* the lock is handed to the waiters first-in first-out.                   *)
(***************************************************************************)
EXTENDS Integers, Sequences, FiniteSets, TLC

\* ------------------------------------------------------------- bounds
\* Largest number of bots (workers) a pool is built with.
MaxBots == 3
\* Number of independent callers of the pool in Spec.
MaxCalls == 2
\* Largest number of bytes the uploaded stream carries in SpecStream.
MaxSize == 4
\* Largest configured chunk size (settings.telegram_chunk_size), in bytes.
MaxChunkSize == 2
\* Capacity of the activity queue, for Queue(maxsize=1000).
MaxQueue == 2
\* Largest number of log_activity_async calls in SpecLogger.
MaxActivities == 4
\* Largest number of rate-limit signals (RetryAfter) the transport gives in Spec.
MaxRetryAfter == 2
\* Largest number of rate-limit signals the transport gives in SpecStream.
MaxStreamRetryAfter == 1

\* the time-to-live of a cache entry is at most MaxTtl units of the clock
MaxTtl == 2

\* the clock runs from 0 to MaxClock
MaxClock == 2

\* "3" in min(3, len(chunks)): the look-ahead window of stream_download.
DownloadWindow == 3

VARIABLES
  \* TelegramWorkerPool
  bot_count, current_index, locked, waiters,
  \* one record of control state per call of upload_chunk / download_chunk /
  \* delete_chunk (a coroutine, with the frames of its recursive retries)
  kind, pc, stack, want, args, result,
  \* the transport (Telegram): the stored documents, the rate-limit signals it will still give
  store, retryAfterLeft,
  \* history: the bots returned by the last bot_count cursor selections of get_bot
  selLog,
  \* ChunkManager.stream_upload
  up_pc, chunk_size, data, stream_pos, buffer, up_chunk_index, chunks_to_upload,
  chunks_metadata,
  \* ChunkManager.stream_download and its consumer
  dl_pc, chunks, download_queue, pending_tasks, chunk_index, next_yield_index,
  yielded, yieldLog,
  \* the metadata store: the ids of the committed rows of the files table, the
  \* committed rows of the file_chunks table in the order of their ids
  db_files, db_chunks,
  \* routers/files.py delete_file: the request's position, its file_id, its list
  \* "chunks" and the number of chunks its loop is done with
  del_pc, del_file, del_chunks, del_i,
  \* cache.py PermissionCache: self.ttl (seconds), self._cache (a dict from
  \* (storage_id, user_id) to (has_access, role, cached_at)); datetime.utcnow()
  ttl, cache, now,
  \* history: the last operation made on the cache and what it returned
  lastOp,
  \* history: for each key, the arguments and the time of the last set(...)
  \* made on it, forgotten when an invalidate or a clear names the key
  written,
  \* the storages table (id -> owner_id) and the storage_permissions table
  \* ((storage_id, user_id) -> role), as committed
  db_storages, db_permissions,
  \* the requests in progress, one per thread of the server's pool: where each
  \* one is in its handler, and its arguments and local variables
  rq_pc, rq,
  \* routers/files.py upload_file: where the handler is, and db_file.id
  uf_pc, uf_file,
  \* activity_logger.py: _activity_queue (its entries, oldest first) and
  \* _shutdown; where the thread _activity_thread is in
  \* _activity_logger_worker, and its local activity_data; where
  \* stop_activity_logger is; the rows of the activities table in the order
  \* of their commits
  activity_queue, shutdown, worker_pc, activity_data, stop_pc, activities,
  \* history: the number of log_activity_async calls made, each activity being
  \* named by the number of its call, and the activities that were skipped
  log_calls, skipped

poolVars == <<bot_count, current_index, locked, waiters>>
callVars == <<kind, pc, stack, want, args, result>>
netVars == <<store, retryAfterLeft>>
upVars == <<up_pc, chunk_size, data, stream_pos, buffer, up_chunk_index, chunks_to_upload,
           chunks_metadata>>
dlVars == <<dl_pc, chunks, download_queue, pending_tasks, chunk_index, next_yield_index,
            yielded, yieldLog>>
dbVars == <<db_files, db_chunks>>
delVars == <<del_pc, del_file, del_chunks, del_i>>
cacheVars == <<ttl, cache, now>>
aclVars == <<db_storages, db_permissions>>
rqVars == <<rq_pc, rq>>
accessVars == <<cacheVars, lastOp, written, aclVars, rqVars>>
ufVars == <<uf_pc, uf_file>>
logVars == <<activity_queue, shutdown, worker_pc, activity_data, stop_pc, activities,
            log_calls, skipped>>
apiVars == <<accessVars, ufVars, logVars>>
vars == <<poolVars, callVars, netVars, selLog, upVars, dlVars, dbVars, delVars, apiVars>>

\* ------------------------------------------------------------ helpers
MaxOf(a, b) == IF a > b THEN a ELSE b
MinOf(a, b) == IF a < b THEN a ELSE b

\* The calls (coroutines) the model has room for.
Tasks == 1..MaxOf(MaxCalls, MaxSize)

\* Optional[int] = None
NoIndex == -1

Bots == 0..(bot_count - 1)

Last(s) == s[Len(s)]

RangeOf(s) == {s[i] : i \in DOMAIN s}

NoArgs == [chunk_data |-> <<>>, file_id |-> 0, message_id |-> 0, bot_index |-> NoIndex]
NoResult == [message_id |-> 0, file_id |-> 0, bot_index |-> NoIndex, bytes |-> <<>>, ok |-> FALSE]

\* None, as the value of an Optional[Tuple[...]]
None == <<>>

\* An empty dict
NoEntries == [k \in {} |-> 0]

\* No operation has been made on the cache.
NoOp ==
  [op |-> "none", storage_id |-> 0, user_id |-> 0, ret |-> None, found_at |-> NoIndex,
   held |-> {}]

\* the threads that serve the synchronous endpoints
Threads == {1, 2}

\* The arguments of a request and the locals of its handler: cached is
\* cached_result, permission the role of the row the query returned.
Request(endpoint, storage_id, user_id, required_role, target, role) ==
  [endpoint |-> endpoint, storage_id |-> storage_id, user_id |-> user_id,
   required_role |-> required_role, target |-> target, role |-> role,
   cached |-> None, permission |-> None]

NoRequest == Request("none", 0, 0, "viewer", 0, "viewer")

\* A document of the channel, sent by bot: the transport counts the times it
\* served the file and records the bots that asked to delete the message.
Document(bot, bytes) ==
  [bot |-> bot, bytes |-> bytes, deleted |-> FALSE, fetches |-> 0, delete_requests |-> <<>>]

\* ------------------------------------------------- TelegramWorkerPool
\* get_bot: the explicit index is used when it is given and in range.
UsesCursor(index) == ~(index # NoIndex /\ 0 <= index /\ index < bot_count)

\* A get_bot that ignores the explicit index.
SelectedBotAtCursor(index) == current_index

\* get_bot: the bot index returned.
SelectedBot(index) == IF UsesCursor(index) THEN current_index ELSE index

CursorAfterSkip(index) == IF UsesCursor(index) THEN (current_index + 2) % bot_count ELSE current_index
\* get_bot: the cursor after the call.
CursorAfter(index) == IF UsesCursor(index) THEN (current_index + 1) % bot_count ELSE current_index

\* History of get_bot: the last bot_count cursor selections.
LogAfter(index) ==
  IF UsesCursor(index)
    THEN LET l == Append(selLog, current_index)
         IN IF Len(l) > bot_count THEN Tail(l) ELSE l
    ELSE selLog

CanAcquireUnlocked(w) == TRUE
\* asyncio.Lock.acquire without suspending: the lock is free and nobody waits.
CanAcquire(w) == ~locked[w] /\ waiters[w] = <<>>

\* A frame of call t reaches "async with self._locks[w]": it takes the lock and
\* starts its network call, or queues on the lock.
Enter(t, w) ==
  IF CanAcquire(w)
    THEN /\ locked' = [locked EXCEPT ![w] = TRUE]
         /\ stack' = [stack EXCEPT ![t] = Append(@, w)]
         /\ pc' = [pc EXCEPT ![t] = "net"]
         /\ UNCHANGED <<waiters, want>>
    ELSE /\ waiters' = [waiters EXCEPT ![w] = Append(@, t)]
         /\ want' = [want EXCEPT ![t] = w]
         /\ pc' = [pc EXCEPT ![t] = "wait"]
         /\ UNCHANGED <<locked, stack>>

\* Leaving every "async with" of call t (a return or an exception unwinds the
\* frames of the recursion): the locks its frames hold are released.
Released(t) == [w \in DOMAIN locked |-> IF w \in RangeOf(stack[t]) THEN FALSE ELSE locked[w]]

\* An event loop that serves network answers between the starts of the tasks.
DispatchingNever == FALSE

\* The event loop is still starting the tasks of an initial batch (gather, or
\* the first window of stream_download): no network call of theirs has been
\* answered yet.
Dispatching == up_pc = "dispatch" \/ dl_pc = "dispatch"

\* upload_chunk(channel_id, chunk_data, bot_index)
UploadChunkCall(t, chunk_data, index) ==
  /\ pc[t] = "idle"
  /\ kind' = [kind EXCEPT ![t] = "upload"]
  /\ args' = [args EXCEPT ![t] = [NoArgs EXCEPT !.chunk_data = chunk_data, !.bot_index = index]]
  /\ current_index' = CursorAfter(index)
  /\ selLog' = LogAfter(index)
  /\ Enter(t, SelectedBot(index))
  /\ UNCHANGED <<bot_count, result, netVars>>

\* download_chunk(telegram_file_id, bot_index)
DownloadChunkCall(t, file_id, index) ==
  /\ pc[t] = "idle"
  /\ index \in Bots
  /\ kind' = [kind EXCEPT ![t] = "download"]
  /\ args' = [args EXCEPT ![t] = [NoArgs EXCEPT !.file_id = file_id, !.bot_index = index]]
  /\ Enter(t, index)
  /\ UNCHANGED <<bot_count, current_index, selLog, result, netVars>>

\* delete_chunk(channel_id, message_id, bot_index)
DeleteChunkCall(t, message_id, index) ==
  /\ pc[t] = "idle"
  /\ index \in Bots
  /\ kind' = [kind EXCEPT ![t] = "delete"]
  /\ args' = [args EXCEPT ![t] = [NoArgs EXCEPT !.message_id = message_id, !.bot_index = index]]
  /\ Enter(t, index)
  /\ UNCHANGED <<bot_count, current_index, selLog, result, netVars>>

\* asyncio.Lock: the first waiter of a released lock takes it and starts its
\* network call.
Acquire(t) ==
  /\ pc[t] = "wait"
  /\ ~locked[want[t]]
  /\ waiters[want[t]] # <<>>
  /\ Head(waiters[want[t]]) = t
  /\ locked' = [locked EXCEPT ![want[t]] = TRUE]
  /\ waiters' = [waiters EXCEPT ![want[t]] = Tail(@)]
  /\ stack' = [stack EXCEPT ![t] = Append(@, want[t])]
  /\ want' = [want EXCEPT ![t] = NoIndex]
  /\ pc' = [pc EXCEPT ![t] = "net"]
  /\ UNCHANGED <<bot_count, current_index, selLog, kind, args, result, netVars>>

UsedBotIndexOuter(t) == stack[t][1]
\* upload_chunk: the used_bot_index of the frame whose send_document succeeded.
UsedBotIndex(t) == Last(stack[t])

\* bot.send_document succeeds: the transport stores the document under a new
\* message id / file id, owned by the sending bot; every frame returns.
SendOk(t) ==
  /\ kind[t] = "upload" /\ pc[t] = "net" /\ ~Dispatching
  /\ store' = Append(store, Document(Last(stack[t]), args[t].chunk_data))
  /\ result' = [result EXCEPT ![t] = [NoResult EXCEPT !.message_id = Len(store) + 1,
                                                        !.file_id = Len(store) + 1,
                                                        !.bot_index = UsedBotIndex(t),
                                                        !.ok = TRUE]]
  /\ locked' = Released(t)
  /\ stack' = [stack EXCEPT ![t] = <<>>]
  /\ pc' = [pc EXCEPT ![t] = "done"]
  /\ UNCHANGED <<bot_count, current_index, waiters, selLog, kind, want, args,
                 retryAfterLeft>>

\* except RetryAfter (upload_chunk, download_chunk): the frame keeps its lock
\* and sleeps e.retry_after seconds.
RateLimited(t) ==
  /\ kind[t] \in {"upload", "download"} /\ pc[t] = "net" /\ ~Dispatching
  /\ retryAfterLeft > 0
  /\ retryAfterLeft' = retryAfterLeft - 1
  /\ pc' = [pc EXCEPT ![t] = "sleep"]
  /\ UNCHANGED <<poolVars, selLog, kind, stack, want, args, result, store>>

RetryIndexReselect(t) == NoIndex
\* The bot_index argument of the recursive call after the sleep:
\* upload_chunk(channel_id, chunk_data, None), download_chunk(file_id, bot_index).
RetryIndex(t) == IF kind[t] = "upload" THEN NoIndex ELSE args[t].bot_index

\* asyncio.sleep returns: the frame, still inside "async with", calls itself.
Retry(t) ==
  /\ pc[t] = "sleep"
  /\ current_index' = CursorAfter(RetryIndex(t))
  /\ selLog' = LogAfter(RetryIndex(t))
  /\ Enter(t, SelectedBot(RetryIndex(t)))
  /\ UNCHANGED <<bot_count, kind, args, result, netVars>>

\* except TelegramError: raise (upload_chunk, download_chunk); the exception
\* leaves every frame of the call.
Fault(t) ==
  /\ kind[t] \in {"upload", "download"} /\ pc[t] = "net" /\ ~Dispatching
  /\ locked' = Released(t)
  /\ stack' = [stack EXCEPT ![t] = <<>>]
  /\ pc' = [pc EXCEPT ![t] = "raised"]
  /\ UNCHANGED <<bot_count, current_index, waiters, selLog, kind, want, args, result,
                 netVars>>

\* The transport serves a file only to the bot that uploaded it.
Fetchable(file_id, w) == file_id \in DOMAIN store /\ store[file_id].bot = w

\* bot.get_file / download_to_memory succeed: the bytes are returned.
FetchOk(t) ==
  /\ kind[t] = "download" /\ pc[t] = "net" /\ ~Dispatching
  /\ Fetchable(args[t].file_id, Last(stack[t]))
  /\ result' = [result EXCEPT ![t] = [NoResult EXCEPT !.bytes = store[args[t].file_id].bytes,
                                                        !.ok = TRUE]]
  /\ locked' = Released(t)
  /\ stack' = [stack EXCEPT ![t] = <<>>]
  /\ pc' = [pc EXCEPT ![t] = "done"]
  /\ store' = [store EXCEPT ![args[t].file_id].fetches = @ + 1]
  /\ UNCHANGED <<bot_count, current_index, waiters, selLog, kind, want, args, retryAfterLeft>>

\* The transport records the request of call t to delete its message.
Requested(t) ==
  IF args[t].message_id \in DOMAIN store
    THEN [store EXCEPT ![args[t].message_id].delete_requests = Append(@, Last(stack[t]))]
    ELSE store

\* bot.delete_message succeeds: return True.
DeleteOk(t) ==
  /\ kind[t] = "delete" /\ pc[t] = "net" /\ ~Dispatching
  /\ args[t].message_id \in DOMAIN store
  /\ ~store[args[t].message_id].deleted
  /\ store' = [Requested(t) EXCEPT ![args[t].message_id].deleted = TRUE]
  /\ result' = [result EXCEPT ![t] = [NoResult EXCEPT !.ok = TRUE]]
  /\ locked' = Released(t)
  /\ stack' = [stack EXCEPT ![t] = <<>>]
  /\ pc' = [pc EXCEPT ![t] = "done"]
  /\ UNCHANGED <<bot_count, current_index, waiters, selLog, kind, want, args,
                 retryAfterLeft>>

\* bot.delete_message raises a TelegramError, which may be the rate-limit signal
\* RetryAfter (a subclass).
DeleteAnswer(t, rate_limited) ==
  /\ rate_limited => retryAfterLeft > 0
  /\ retryAfterLeft' = IF rate_limited THEN retryAfterLeft - 1 ELSE retryAfterLeft
  /\ store' = Requested(t)

DeleteFaultRaised(t) ==
  /\ kind[t] = "delete" /\ pc[t] = "net" /\ ~Dispatching
  /\ \E rate_limited \in BOOLEAN : DeleteAnswer(t, rate_limited)
  /\ locked' = Released(t)
  /\ stack' = [stack EXCEPT ![t] = <<>>]
  /\ pc' = [pc EXCEPT ![t] = "raised"]
  /\ UNCHANGED <<bot_count, current_index, waiters, selLog, kind, want, args, result>>
\* delete_chunk, except TelegramError: return False.
DeleteFault(t) ==
  /\ kind[t] = "delete" /\ pc[t] = "net" /\ ~Dispatching
  /\ \E rate_limited \in BOOLEAN : DeleteAnswer(t, rate_limited)
  /\ result' = [result EXCEPT ![t] = [NoResult EXCEPT !.ok = FALSE]]
  /\ locked' = Released(t)
  /\ stack' = [stack EXCEPT ![t] = <<>>]
  /\ pc' = [pc EXCEPT ![t] = "done"]
  /\ UNCHANGED <<bot_count, current_index, waiters, selLog, kind, want, args>>

\* ------------------------------------------------------ initial states
\* TelegramWorkerPool.__init__ for a pool of n bots, no call in progress; the
\* cursor is at c, the channel holds the documents `stored` and the transport
\* will signal a rate limit at most `signals` times.
PoolInit(n, c, stored, signals) ==
  /\ bot_count = n
  /\ current_index = c
  /\ locked = [w \in 0..(n - 1) |-> FALSE]
  /\ waiters = [w \in 0..(n - 1) |-> <<>>]
  /\ kind = [t \in Tasks |-> "none"]
  /\ pc = [t \in Tasks |-> "idle"]
  /\ stack = [t \in Tasks |-> <<>>]
  /\ want = [t \in Tasks |-> NoIndex]
  /\ args = [t \in Tasks |-> NoArgs]
  /\ result = [t \in Tasks |-> NoResult]
  /\ store = stored
  /\ retryAfterLeft = signals
  /\ selLog = <<>>

\* No stream_upload has been called.
UploadIdle ==
  /\ up_pc = "idle"
  /\ chunk_size = 1
  /\ data = <<>>
  /\ stream_pos = 0
  /\ buffer = <<>>
  /\ up_chunk_index = 0
  /\ chunks_to_upload = <<>>
  /\ chunks_metadata = <<>>

\* No stream_download has been called.
DownloadIdle ==
  /\ dl_pc = "idle"
  /\ chunks = <<>>
  /\ download_queue = <<>>
  /\ pending_tasks = {}
  /\ chunk_index = 0
  /\ next_yield_index = 0
  /\ yielded = <<>>
  /\ yieldLog = <<>>

\* No file in the metadata store.
DbEmpty ==
  /\ db_files = {}
  /\ db_chunks = <<>>

\* No delete_file request has been made.
DeleteIdle ==
  /\ del_pc = "idle"
  /\ del_file = 0
  /\ del_chunks = <<>>
  /\ del_i = 0

\* No request has used the permission cache: get_permission_cache() builds it
\* with ttl_seconds = 300, here one unit of the model's clock.
CacheIdle ==
  /\ ttl = 1
  /\ cache = NoEntries
  /\ now = 0

\* No storage exists and no request is being served.
AccessIdle ==
  /\ db_storages = NoEntries
  /\ db_permissions = NoEntries
  /\ rq_pc = [t \in Threads |-> "idle"]
  /\ rq = [t \in Threads |-> NoRequest]

\* No upload_file request has been made.
UploadFileIdle ==
  /\ uf_pc = "idle"
  /\ uf_file = 0

\* What stands for None on the queue and in activity_data.
Sentinel == 0

\* The module is imported and start_activity_logger has not been called:
\* _activity_queue is None, _activity_thread is None, _shutdown is False.
LoggerIdle ==
  /\ activity_queue = <<>>
  /\ shutdown = FALSE
  /\ worker_pc = "unstarted"
  /\ activity_data = Sentinel
  /\ stop_pc = "idle"
  /\ activities = <<>>
  /\ log_calls = 0
  /\ skipped = {}

\* The HTTP interface is not used.
ApiIdle ==
  /\ CacheIdle
  /\ lastOp = NoOp
  /\ written = NoEntries
  /\ AccessIdle
  /\ UploadFileIdle
  /\ LoggerIdle

\* ------------------------------------------- ChunkManager.stream_upload
\* The coroutine that uploads chunk number chunk_idx (0, 1, ...).
UploadTask(chunk_idx) == chunk_idx + 1

FirstN(s, n) == SubSeq(s, 1, n)
DropN(s, n) == SubSeq(s, n + 1, Len(s))

\* while len(buffer) >= self.chunk_size
CutThreshold(buf) == Len(buf) >= chunk_size

\* The "while len(buffer) >= self.chunk_size" loop on buffer buf, with idx the
\* chunk_index and acc the chunks_to_upload so far:
\* the record [buffer, chunk_index, chunks_to_upload] it ends with.
RECURSIVE CutChunks(_, _, _)
CutChunks(buf, idx, acc) ==
  IF CutThreshold(buf)
    THEN CutChunks(DropN(buf, chunk_size), idx + 1,
                   Append(acc, [chunk_idx |-> idx, chunk_data |-> FirstN(buf, chunk_size)]))
    ELSE [buffer |-> buf, chunk_index |-> idx, chunks_to_upload |-> acc]

\* async for data in file_stream: the stream hands over its next n bytes.
StreamPiece(n) ==
  /\ up_pc = "collect"
  /\ stream_pos + n <= Len(data)
  /\ LET piece == SubSeq(data, stream_pos + 1, stream_pos + n)
         cut == CutChunks(buffer \o piece, up_chunk_index, chunks_to_upload)
     IN /\ buffer' = cut.buffer
        /\ up_chunk_index' = cut.chunk_index
        /\ chunks_to_upload' = cut.chunks_to_upload
  /\ stream_pos' = stream_pos + n
  /\ UNCHANGED <<up_pc, chunk_size, data, chunks_metadata>>

WithFinalChunkAlways == Append(chunks_to_upload, [chunk_idx |-> up_chunk_index, chunk_data |-> buffer])
WithFinalChunkDropped == chunks_to_upload
\* "if len(buffer) > 0": the remaining data becomes the final chunk.
WithFinalChunk ==
  IF Len(buffer) > 0
    THEN Append(chunks_to_upload, [chunk_idx |-> up_chunk_index, chunk_data |-> buffer])
    ELSE chunks_to_upload

\* A count of parallel uploads that ignores the number of bots.
ParallelUploadsChunks(all) == Len(all)

\* parallel_uploads = min(self.worker_pool.bot_count, len(chunks_to_upload))
ParallelUploads(all) == MinOf(bot_count, Len(all))

DescriptorNominalSize(c, t) ==
  [chunk_idx |-> c.chunk_idx, message_id |-> result[t].message_id,
   file_id |-> result[t].file_id, bot_index |-> result[t].bot_index,
   size |-> chunk_size]
\* The tuple (chunk_idx, message_id, file_id, bot_index, len(chunk_data)) built
\* from the result of the upload_chunk call t made for chunk c.
Descriptor(c, t) ==
  [chunk_idx |-> c.chunk_idx, message_id |-> result[t].message_id,
   file_id |-> result[t].file_id, bot_index |-> result[t].bot_index,
   size |-> Len(c.chunk_data)]

\* The stream ends: the final chunk is cut and the uploads begin.  With at most
\* one bot or one chunk the first upload_chunk is called at once (none for an
\* empty stream); otherwise gather creates one task per chunk.
StreamEnd ==
  /\ up_pc = "collect"
  /\ stream_pos = Len(data)
  /\ chunks_to_upload' = WithFinalChunk
  /\ buffer' = buffer
  /\ LET all == WithFinalChunk
     IN IF ParallelUploads(all) <= 1
          THEN IF all = <<>>
                 THEN /\ up_pc' = "returned"
                      /\ UNCHANGED <<poolVars, callVars, netVars, selLog>>
                 ELSE /\ up_pc' = "sequential"
                      /\ UploadChunkCall(UploadTask(0), all[1].chunk_data, NoIndex)
          ELSE /\ up_pc' = "dispatch"
               /\ UNCHANGED <<poolVars, callVars, netVars, selLog>>
  /\ UNCHANGED <<chunk_size, data, stream_pos, up_chunk_index, chunks_metadata>>

\* Sequential path: the awaited upload_chunk returns; its descriptor is
\* appended and the next chunk's upload_chunk is called, or the list returned.
SequentialNext ==
  /\ up_pc = "sequential"
  /\ LET n == Len(chunks_metadata) + 1
         t == UploadTask(n - 1)
     IN /\ pc[t] = "done"
        /\ chunks_metadata' = Append(chunks_metadata, Descriptor(chunks_to_upload[n], t))
        /\ IF n < Len(chunks_to_upload)
             THEN /\ UploadChunkCall(UploadTask(n), chunks_to_upload[n + 1].chunk_data, NoIndex)
                  /\ UNCHANGED up_pc
             ELSE /\ up_pc' = "returned"
                  /\ UNCHANGED <<poolVars, callVars, netVars, selLog>>
  /\ UNCHANGED <<chunk_size, data, stream_pos, buffer, up_chunk_index, chunks_to_upload>>

\* Sequential path: the awaited upload_chunk raises; so does stream_upload.
SequentialRaise ==
  /\ up_pc = "sequential"
  /\ pc[UploadTask(Len(chunks_metadata))] = "raised"
  /\ up_pc' = "raised"
  /\ UNCHANGED <<poolVars, callVars, netVars, selLog, chunk_size, data, stream_pos, buffer,
                 up_chunk_index, chunks_to_upload, chunks_metadata>>

\* Parallel path: the event loop starts the tasks gather created, in the order
\* of their creation; each runs upload_chunk_task up to its first suspension.
TaskStart(t) ==
  /\ up_pc = "dispatch"
  /\ t \in 1..Len(chunks_to_upload)
  /\ \A u \in 1..(t - 1) : pc[u] # "idle"
  /\ UploadChunkCall(t, chunks_to_upload[t].chunk_data, NoIndex)
  /\ up_pc' = IF t = Len(chunks_to_upload) THEN "gather" ELSE "dispatch"
  /\ UNCHANGED <<chunk_size, data, stream_pos, buffer, up_chunk_index, chunks_to_upload,
                 chunks_metadata>>

SortKeyMessageId(d) == d.message_id
\* key=lambda x: x[0]
SortKey(d) == d.chunk_idx

\* Insertion of d into the list s sorted by SortKey, after the entries with an
\* equal key (sorted() is stable).
RECURSIVE Insert(_, _)
Insert(s, d) ==
  IF s = <<>> THEN <<d>>
  ELSE IF SortKey(d) < SortKey(Head(s)) THEN <<d>> \o s
  ELSE <<Head(s)>> \o Insert(Tail(s), d)

\* sorted(results, key=lambda x: x[0])
RECURSIVE Sorted(_)
Sorted(s) == IF s = <<>> THEN <<>> ELSE Insert(Sorted(FirstN(s, Len(s) - 1)), Last(s))

\* results = await asyncio.gather(*tasks): the results in the order of the tasks.
GatherResults == [i \in 1..Len(chunks_to_upload) |-> Descriptor(chunks_to_upload[i], i)]

AllTasksFinished == \A t \in 1..Len(chunks_to_upload) : pc[t] \in {"done", "raised"}
\* asyncio.gather(*tasks) without return_exceptions returns its results when
\* every task has returned.
AllTasksReturned == \A t \in 1..Len(chunks_to_upload) : pc[t] = "done"

\* Every task has returned: gather returns and the sorted list is returned.
GatherReturn ==
  /\ up_pc = "gather"
  /\ AllTasksReturned
  /\ chunks_metadata' = Sorted(GatherResults)
  /\ up_pc' = "returned"
  /\ UNCHANGED <<poolVars, callVars, netVars, selLog, chunk_size, data, stream_pos, buffer,
                 up_chunk_index, chunks_to_upload>>

\* A task has raised: gather raises at once, the other tasks run on.
GatherRaise ==
  /\ up_pc = "gather"
  /\ \E t \in 1..Len(chunks_to_upload) : pc[t] = "raised"
  /\ up_pc' = "raised"
  /\ UNCHANGED <<poolVars, callVars, netVars, selLog, chunk_size, data, stream_pos, buffer,
                 up_chunk_index, chunks_to_upload, chunks_metadata>>

\* ----------------------------------------- ChunkManager.stream_download
\* The coroutine that downloads the chunk at position k (0, 1, ...) of chunks.
DownloadTask(k) == k + 1

\* No call is in progress and the finished coroutines are gone.
CallsCleared ==
  /\ kind' = [t \in Tasks |-> "none"]
  /\ pc' = [t \in Tasks |-> "idle"]
  /\ stack' = [t \in Tasks |-> <<>>]
  /\ want' = [t \in Tasks |-> NoIndex]
  /\ args' = [t \in Tasks |-> NoArgs]
  /\ result' = [t \in Tasks |-> NoResult]

\* chunks_data of download_file: the (file_id, bot_index) pairs of the stored
\* descriptors, in their order.
ChunkRefs(metadata) ==
  [i \in 1..Len(metadata) |-> [file_id |-> metadata[i].file_id,
                               bot_index |-> metadata[i].bot_index]]

ParallelWindowAll(refs) == Len(refs)
\* parallel_window = min(3, len(chunks))
ParallelWindow(refs) == MinOf(DownloadWindow, Len(refs))

\* The consumer's first pull runs the generator: with a window of at most one
\* it enters the sequential loop, otherwise it creates the first window of
\* tasks and waits for chunk 0.
StreamDownloadStart(refs) ==
  /\ dl_pc = "idle"
  /\ chunks' = refs
  /\ next_yield_index' = 0
  /\ IF ParallelWindow(refs) <= 1
       THEN /\ download_queue' = refs
            /\ pending_tasks' = {}
            /\ chunk_index' = 0
            /\ dl_pc' = IF refs = <<>> THEN "ended" ELSE "seq_call"
       ELSE /\ download_queue' = DropN(refs, ParallelWindow(refs))
            /\ pending_tasks' = 0..(ParallelWindow(refs) - 1)
            /\ chunk_index' = ParallelWindow(refs)
            /\ dl_pc' = "dispatch"
  /\ UNCHANGED <<yielded, yieldLog>>

\* Sequential loop: download_chunk is called for the next reference.
SequentialCall ==
  /\ dl_pc = "seq_call"
  /\ LET k == Len(chunks) - Len(download_queue)
         ref == Head(download_queue)
     IN DownloadChunkCall(DownloadTask(k), ref.file_id, ref.bot_index)
  /\ download_queue' = Tail(download_queue)
  /\ dl_pc' = "seq_await"
  /\ UNCHANGED <<chunks, pending_tasks, chunk_index, next_yield_index, yielded, yieldLog>>

\* Sequential loop: the awaited download_chunk returns and its bytes are
\* yielded, or it raises and so does the generator.
SequentialYield ==
  /\ dl_pc = "seq_await"
  /\ LET k == Len(chunks) - Len(download_queue) - 1
     IN \/ /\ pc[DownloadTask(k)] = "done"
           /\ yielded' = Append(yielded, result[DownloadTask(k)].bytes)
           /\ yieldLog' = Append(yieldLog, k)
           /\ dl_pc' = "seq_yielded"
        \/ /\ pc[DownloadTask(k)] = "raised"
           /\ dl_pc' = "raised"
           /\ UNCHANGED <<yielded, yieldLog>>
  /\ UNCHANGED <<poolVars, callVars, netVars, selLog, chunks, download_queue, pending_tasks,
                 chunk_index, next_yield_index>>

\* Sequential loop: the consumer pulls again.
SequentialPull ==
  /\ dl_pc = "seq_yielded"
  /\ dl_pc' = IF download_queue = <<>> THEN "ended" ELSE "seq_call"
  /\ UNCHANGED <<poolVars, callVars, netVars, selLog, chunks, download_queue, pending_tasks,
                 chunk_index, next_yield_index, yielded, yieldLog>>

\* The event loop starts a task created by asyncio.create_task, the oldest
\* first: it runs download_chunk up to its first suspension.
DownloadTaskStart(k) ==
  /\ k \in pending_tasks
  /\ pc[DownloadTask(k)] = "idle"
  /\ \A j \in pending_tasks : j < k => pc[DownloadTask(j)] # "idle"
  /\ DownloadChunkCall(DownloadTask(k), chunks[k + 1].file_id, chunks[k + 1].bot_index)
  /\ dl_pc' = IF dl_pc = "dispatch" /\ \A j \in pending_tasks : j <= k THEN "await" ELSE dl_pc
  /\ UNCHANGED <<chunks, download_queue, pending_tasks, chunk_index, next_yield_index,
                 yielded, yieldLog>>

AwaitedIndexAnyDone ==
  IF \E k \in pending_tasks : pc[DownloadTask(k)] = "done"
    THEN CHOOSE k \in pending_tasks :
           /\ pc[DownloadTask(k)] = "done"
           /\ \A j \in pending_tasks : pc[DownloadTask(j)] = "done" => j <= k
    ELSE next_yield_index
\* The key of the task awaited and yielded: pending_tasks[next_yield_index].
AwaitedIndex == next_yield_index

YieldAndRefill ==
  /\ dl_pc = "await"
  /\ AwaitedIndex \in pending_tasks
  /\ pc[DownloadTask(AwaitedIndex)] = "done"
  /\ IF download_queue # <<>>
       THEN /\ download_queue' = Tail(download_queue)
            /\ pending_tasks' = (pending_tasks \ {AwaitedIndex}) \cup {chunk_index}
            /\ chunk_index' = chunk_index + 1
       ELSE /\ pending_tasks' = pending_tasks \ {AwaitedIndex}
            /\ UNCHANGED <<download_queue, chunk_index>>
  /\ yielded' = Append(yielded, result[DownloadTask(AwaitedIndex)].bytes)
  /\ yieldLog' = Append(yieldLog, AwaitedIndex)
  /\ dl_pc' = "yielded"
  /\ UNCHANGED <<poolVars, callVars, netVars, selLog, chunks, next_yield_index>>
\* "await pending_tasks[next_yield_index]" returns: the entry is deleted and the
\* bytes are yielded to the consumer.
Yield ==
  /\ dl_pc = "await"
  /\ AwaitedIndex \in pending_tasks
  /\ pc[DownloadTask(AwaitedIndex)] = "done"
  /\ pending_tasks' = pending_tasks \ {AwaitedIndex}
  /\ yielded' = Append(yielded, result[DownloadTask(AwaitedIndex)].bytes)
  /\ yieldLog' = Append(yieldLog, AwaitedIndex)
  /\ dl_pc' = "yielded"
  /\ UNCHANGED <<poolVars, callVars, netVars, selLog, chunks, download_queue, chunk_index,
                 next_yield_index>>

YieldRaiseSkipped ==
  /\ dl_pc = "await"
  /\ AwaitedIndex \in pending_tasks
  /\ pc[DownloadTask(AwaitedIndex)] = "raised"
  /\ pending_tasks' = pending_tasks \ {AwaitedIndex}
  /\ dl_pc' = "yielded"
  /\ UNCHANGED <<poolVars, callVars, netVars, selLog, chunks, download_queue, chunk_index,
                 next_yield_index, yielded, yieldLog>>
\* "await pending_tasks[next_yield_index]" raises: the generator raises.
YieldRaise ==
  /\ dl_pc = "await"
  /\ AwaitedIndex \in pending_tasks
  /\ pc[DownloadTask(AwaitedIndex)] = "raised"
  /\ dl_pc' = "raised"
  /\ UNCHANGED <<poolVars, callVars, netVars, selLog, chunks, download_queue, pending_tasks,
                 chunk_index, next_yield_index, yielded, yieldLog>>

PullNoRefill ==
  /\ dl_pc = "yielded"
  /\ next_yield_index' = next_yield_index + 1
  /\ dl_pc' = IF pending_tasks = {} THEN "ended"
              ELSE IF next_yield_index' \in pending_tasks THEN "await"
              ELSE "poll"
  /\ UNCHANGED <<poolVars, callVars, netVars, selLog, chunks, yielded, yieldLog, download_queue,
                 pending_tasks, chunk_index>>
\* The consumer pulls again: next_yield_index advances, a task is created for
\* the next reference of download_queue, and the loop waits for the next chunk
\* (or, with next_yield_index not pending, sleeps 0.01 s and looks again: "poll").
Pull ==
  /\ dl_pc = "yielded"
  /\ next_yield_index' = next_yield_index + 1
  /\ IF download_queue # <<>>
       THEN /\ download_queue' = Tail(download_queue)
            /\ pending_tasks' = pending_tasks \cup {chunk_index}
            /\ chunk_index' = chunk_index + 1
       ELSE UNCHANGED <<download_queue, pending_tasks, chunk_index>>
  /\ dl_pc' = IF pending_tasks' = {} THEN "ended"
              ELSE IF next_yield_index' \in pending_tasks' THEN "await"
              ELSE "poll"
  /\ UNCHANGED <<poolVars, callVars, netVars, selLog, chunks, yielded, yieldLog>>

\* ------------------------------------------------------- SpecStream
\* The bytes of a stream of size n: all different, so that a chunk lost,
\* repeated or out of place shows in the result.
StreamBytes(n) == [i \in 1..n |-> i]

\* stream_upload is called on a pool whose cursor earlier uploads have moved.
UploadInit ==
  /\ up_pc = "collect"
  /\ chunk_size \in 1..MaxChunkSize
  /\ \E n \in 0..MaxSize : data = StreamBytes(n)
  /\ stream_pos = 0
  /\ buffer = <<>>
  /\ up_chunk_index = 0
  /\ chunks_to_upload = <<>>
  /\ chunks_metadata = <<>>

InitStream ==
  /\ \E n \in 1..MaxBots : \E c \in 0..(n - 1) : PoolInit(n, c, <<>>, MaxStreamRetryAfter)
  /\ UploadInit
  /\ DownloadIdle
  /\ DbEmpty
  /\ DeleteIdle
  /\ ApiIdle

\* stream_upload has returned; its coroutines are gone.  The descriptors are
\* handed to stream_download in the returned order and the consumer pulls.
DownloadReturned ==
  /\ up_pc = "returned"
  /\ StreamDownloadStart(ChunkRefs(chunks_metadata))
  /\ CallsCleared
  /\ UNCHANGED <<poolVars, netVars, selLog>>

NextStream ==
  \/ \E n \in 0..MaxSize : StreamPiece(n) /\ UNCHANGED <<poolVars, callVars, netVars, selLog, dlVars, dbVars, delVars, apiVars>>
  \/ StreamEnd /\ UNCHANGED <<dlVars, dbVars, delVars, apiVars>>
  \/ SequentialNext /\ UNCHANGED <<dlVars, dbVars, delVars, apiVars>>
  \/ SequentialRaise /\ UNCHANGED <<dlVars, dbVars, delVars, apiVars>>
  \/ \E t \in Tasks : TaskStart(t) /\ UNCHANGED <<dlVars, dbVars, delVars, apiVars>>
  \/ GatherReturn /\ UNCHANGED <<dlVars, dbVars, delVars, apiVars>>
  \/ GatherRaise /\ UNCHANGED <<dlVars, dbVars, delVars, apiVars>>
  \/ \E t \in Tasks : Acquire(t) /\ UNCHANGED <<upVars, dlVars, dbVars, delVars, apiVars>>
  \/ \E t \in Tasks : SendOk(t) /\ UNCHANGED <<upVars, dlVars, dbVars, delVars, apiVars>>
  \/ \E t \in Tasks : RateLimited(t) /\ UNCHANGED <<upVars, dlVars, dbVars, delVars, apiVars>>
  \/ \E t \in Tasks : Retry(t) /\ UNCHANGED <<upVars, dlVars, dbVars, delVars, apiVars>>
  \/ \E t \in Tasks : Fault(t) /\ UNCHANGED <<upVars, dlVars, dbVars, delVars, apiVars>>
  \/ DownloadReturned /\ UNCHANGED <<upVars, dbVars, delVars, apiVars>>
  \/ SequentialCall /\ UNCHANGED <<upVars, dbVars, delVars, apiVars>>
  \/ SequentialYield /\ UNCHANGED <<upVars, dbVars, delVars, apiVars>>
  \/ SequentialPull /\ UNCHANGED <<upVars, dbVars, delVars, apiVars>>
  \/ \E k \in 0..(MaxSize - 1) : DownloadTaskStart(k) /\ UNCHANGED <<upVars, dbVars, delVars, apiVars>>
  \/ Yield /\ UNCHANGED <<upVars, dbVars, delVars, apiVars>>
  \/ YieldRaise /\ UNCHANGED <<upVars, dbVars, delVars, apiVars>>
  \/ Pull /\ UNCHANGED <<upVars, dbVars, delVars, apiVars>>
  \/ \E t \in Tasks : FetchOk(t) /\ UNCHANGED <<upVars, dlVars, dbVars, delVars, apiVars>>

SpecStream == InitStream /\ [][NextStream]_vars

\* ------------------------------------------------------- SpecFetch
\* m documents of one byte each, sent by the bots of a pool of n in turn from
\* bot c on, as stream_upload does.
ChannelDocuments(n, c, m) == [i \in 1..m |-> Document((c + i - 1) % n, <<i>>)]

\* The (file_id, bot_index) pairs of the documents of the channel, in the
\* order of their ids.
StoredRefs == [i \in 1..Len(store) |-> [file_id |-> i, bot_index |-> store[i].bot]]

\* The channel holds 0..MaxSize documents; the transport gives no rate-limit
\* signal.
InitFetch ==
  /\ \E n \in 1..MaxBots : \E c \in 0..(n - 1) : \E m \in 0..MaxSize :
       PoolInit(n, (c + m) % n, ChannelDocuments(n, c, m), 0)
  /\ UploadIdle
  /\ DownloadIdle
  /\ DbEmpty
  /\ DeleteIdle
  /\ ApiIdle

\* stream_download is called with the references of the stored documents and
\* the consumer pulls.
DownloadStored ==
  /\ StreamDownloadStart(StoredRefs)
  /\ UNCHANGED <<poolVars, callVars, netVars, selLog>>

\* Every fetch succeeds and the consumer keeps pulling.
NextFetch ==
  \/ DownloadStored /\ UNCHANGED <<upVars, dbVars, delVars, apiVars>>
  \/ SequentialCall /\ UNCHANGED <<upVars, dbVars, delVars, apiVars>>
  \/ SequentialYield /\ UNCHANGED <<upVars, dbVars, delVars, apiVars>>
  \/ SequentialPull /\ UNCHANGED <<upVars, dbVars, delVars, apiVars>>
  \/ \E k \in 0..(MaxSize - 1) : DownloadTaskStart(k) /\ UNCHANGED <<upVars, dbVars, delVars, apiVars>>
  \/ Yield /\ UNCHANGED <<upVars, dbVars, delVars, apiVars>>
  \/ Pull /\ UNCHANGED <<upVars, dbVars, delVars, apiVars>>
  \/ \E t \in Tasks : Acquire(t) /\ UNCHANGED <<upVars, dlVars, dbVars, delVars, apiVars>>
  \/ \E t \in Tasks : FetchOk(t) /\ UNCHANGED <<upVars, dlVars, dbVars, delVars, apiVars>>

\* The event loop runs every coroutine that is ready, the transport answers
\* every fetch and the consumer pulls after every chunk: a step that can be
\* taken is eventually taken.
SpecFetch == InitFetch /\ [][NextFetch]_vars /\ WF_vars(NextFetch)

\* ---------------------------------------------------- SpecDownload
\* The consumer stops iterating while it holds a yielded chunk (the client
\* has gone): the generator is closed at its yield statement, which no
\* try / finally encloses, so nothing is done about the tasks of pending_tasks.
Abandon ==
  /\ dl_pc \in {"yielded", "seq_yielded"}
  /\ dl_pc' = "abandoned"
  /\ UNCHANGED <<poolVars, callVars, netVars, selLog, chunks, download_queue, pending_tasks,
                 chunk_index, next_yield_index, yielded, yieldLog>>

\* stream_download alone: a fetch can end in a fault and the consumer can stop
\* iterating.
NextDownload ==
  \/ NextFetch
  \/ YieldRaise /\ UNCHANGED <<upVars, dbVars, delVars, apiVars>>
  \/ Abandon /\ UNCHANGED <<upVars, dbVars, delVars, apiVars>>
  \/ \E t \in Tasks : Fault(t) /\ UNCHANGED <<upVars, dlVars, dbVars, delVars, apiVars>>

SpecDownload == InitFetch /\ [][NextDownload]_vars

\* ------------------------------------------------------------- Spec
\* The pool shared by MaxCalls independent callers.
Callers == 1..MaxCalls

\* The channel outlives the process: it holds a document that bot 0 sent.
Init ==
  /\ \E n \in 1..MaxBots : PoolInit(n, 0, <<Document(0, <<0>>)>>, MaxRetryAfter)
  /\ UploadIdle
  /\ DownloadIdle
  /\ DbEmpty
  /\ DeleteIdle
  /\ ApiIdle

\* The callers are interchangeable: they make their calls in the order of their
\* numbers.  download_chunk and delete_chunk are given the bot index recorded with
\* the chunk (routers/files.py), upload_chunk any index, none or one out of range.
InTurn(t) == \A u \in Callers : u < t => pc[u] # "idle"

CallUpload(t) ==
  /\ InTurn(t)
  /\ \E index \in {NoIndex} \cup (0..bot_count) : UploadChunkCall(t, <<0>>, index)

CallDownload(t) ==
  /\ InTurn(t)
  /\ \E file_id \in DOMAIN store : DownloadChunkCall(t, file_id, store[file_id].bot)

CallDelete(t) ==
  /\ InTurn(t)
  /\ \E message_id \in DOMAIN store : DeleteChunkCall(t, message_id, store[message_id].bot)

Next ==
  \/ \E t \in Callers : CallUpload(t) /\ UNCHANGED <<upVars, dlVars, dbVars, delVars, apiVars>>
  \/ \E t \in Callers : CallDownload(t) /\ UNCHANGED <<upVars, dlVars, dbVars, delVars, apiVars>>
  \/ \E t \in Callers : CallDelete(t) /\ UNCHANGED <<upVars, dlVars, dbVars, delVars, apiVars>>
  \/ \E t \in Tasks : Acquire(t) /\ UNCHANGED <<upVars, dlVars, dbVars, delVars, apiVars>>
  \/ \E t \in Tasks : SendOk(t) /\ UNCHANGED <<upVars, dlVars, dbVars, delVars, apiVars>>
  \/ \E t \in Tasks : RateLimited(t) /\ UNCHANGED <<upVars, dlVars, dbVars, delVars, apiVars>>
  \/ \E t \in Tasks : Retry(t) /\ UNCHANGED <<upVars, dlVars, dbVars, delVars, apiVars>>
  \/ \E t \in Tasks : Fault(t) /\ UNCHANGED <<upVars, dlVars, dbVars, delVars, apiVars>>
  \/ \E t \in Tasks : FetchOk(t) /\ UNCHANGED <<upVars, dlVars, dbVars, delVars, apiVars>>
  \/ \E t \in Tasks : DeleteOk(t) /\ UNCHANGED <<upVars, dlVars, dbVars, delVars, apiVars>>
  \/ \E t \in Tasks : DeleteFault(t) /\ UNCHANGED <<upVars, dlVars, dbVars, delVars, apiVars>>

Spec == Init /\ [][Next]_vars

\* ------------------------------------------- routers/files.py delete_file
\* The delete_chunk call the loop makes for the i-th chunk of its list.
DeleteFileTask(i) == i

\* A row of file_chunks.
FileChunk(id, file_id, idx, size, message_id, bot) ==
  [id |-> id, file_id |-> file_id, chunk_index |-> idx, chunk_size |-> size,
   telegram_message_id |-> message_id, telegram_file_id |-> message_id,
   telegram_bot_token_index |-> bot]

\* select(FileChunk).where(FileChunk.file_id == file_id)
FileChunksOf(file_id) == SelectSeq(db_chunks, LAMBDA c : c.file_id = file_id)

\* session.delete(chunk) for every chunk of the list cs, session.delete(file),
\* session.commit().
CommitDelete(file_id, cs) ==
  /\ db_chunks' = SelectSeq(db_chunks, LAMBDA c : \A i \in DOMAIN cs : cs[i].id # c.id)
  /\ db_files' = db_files \ {file_id}

\* delete_chunk(storage.telegram_channel_id, chunk.telegram_message_id,
\*              chunk.telegram_bot_token_index) for the chunk c.
DeleteFileCall(i, c) ==
  DeleteChunkCall(DeleteFileTask(i), c.telegram_message_id, c.telegram_bot_token_index)

\* The request arrives: 404 for an unknown file; otherwise the chunks are
\* selected and delete_chunk is called for the first one, or, the file having
\* no chunk, its row is deleted at once.
DeleteFileStart(file_id) ==
  /\ del_pc = "idle"
  /\ del_file' = file_id
  /\ del_i' = 0
  /\ IF file_id \notin db_files
       THEN /\ del_pc' = "not_found"
            /\ del_chunks' = <<>>
            /\ UNCHANGED <<poolVars, callVars, netVars, selLog, dbVars>>
       ELSE /\ del_chunks' = FileChunksOf(file_id)
            /\ IF FileChunksOf(file_id) = <<>>
                 THEN /\ CommitDelete(file_id, <<>>)
                      /\ del_pc' = "done"
                      /\ UNCHANGED <<poolVars, callVars, netVars, selLog>>
                 ELSE /\ DeleteFileCall(1, FileChunksOf(file_id)[1])
                      /\ del_pc' = "deleting"
                      /\ UNCHANGED dbVars

DeleteFileNextStrict ==
  /\ del_pc = "deleting"
  /\ pc[DeleteFileTask(del_i + 1)] \in {"done", "raised"}
  /\ del_i' = del_i + 1
  /\ IF ~result[DeleteFileTask(del_i + 1)].ok
       THEN /\ del_pc' = "failed"
            /\ UNCHANGED <<poolVars, callVars, netVars, selLog, dbVars>>
       ELSE IF del_i + 1 < Len(del_chunks)
         THEN /\ DeleteFileCall(del_i + 2, del_chunks[del_i + 2])
              /\ UNCHANGED <<del_pc, dbVars>>
         ELSE /\ CommitDelete(del_file, del_chunks)
              /\ del_pc' = "done"
              /\ UNCHANGED <<poolVars, callVars, netVars, selLog>>
  /\ UNCHANGED <<del_file, del_chunks>>
\* The awaited delete_chunk has returned (True or False) or raised ("except
\* Exception": continue): delete_chunk is called for the next chunk, or, after
\* the last one, the rows of the chunks and of the file are deleted.
DeleteFileNext ==
  /\ del_pc = "deleting"
  /\ pc[DeleteFileTask(del_i + 1)] \in {"done", "raised"}
  /\ del_i' = del_i + 1
  /\ IF del_i + 1 < Len(del_chunks)
       THEN /\ DeleteFileCall(del_i + 2, del_chunks[del_i + 2])
            /\ UNCHANGED <<del_pc, dbVars>>
       ELSE /\ CommitDelete(del_file, del_chunks)
            /\ del_pc' = "done"
            /\ UNCHANGED <<poolVars, callVars, netVars, selLog>>
  /\ UNCHANGED <<del_file, del_chunks>>

\* ------------------------------------------------------- SpecDelete
\* The documents of a file of m chunks and of a file of one chunk.
StoredDocuments(n, c, m) == ChannelDocuments(n, c, m + 1)

\* The rows of the chunks of file 1 (m chunks) and file 2 (one chunk).
StoredChunks(n, c, m) ==
  [i \in 1..(m + 1) |-> FileChunk(i, IF i <= m THEN 1 ELSE 2, IF i <= m THEN i - 1 ELSE 0,
                                   1, i, (c + i - 1) % n)]

InitDelete ==
  /\ \E n \in 1..MaxBots : \E c \in 0..(n - 1) : \E m \in 0..MaxSize :
       /\ PoolInit(n, (c + m + 1) % n, StoredDocuments(n, c, m), MaxRetryAfter)
       /\ db_chunks = StoredChunks(n, c, m)
  /\ db_files = {1, 2}
  /\ UploadIdle
  /\ DownloadIdle
  /\ DeleteIdle
  /\ ApiIdle

NextDelete ==
  \/ \E file_id \in 1..3 : DeleteFileStart(file_id) /\ UNCHANGED <<upVars, dlVars, apiVars>>
  \/ DeleteFileNext /\ UNCHANGED <<upVars, dlVars, apiVars>>
  \/ \E t \in Tasks : DeleteOk(t) /\ UNCHANGED <<upVars, dlVars, dbVars, delVars, apiVars>>
  \/ \E t \in Tasks : DeleteFault(t) /\ UNCHANGED <<upVars, dlVars, dbVars, delVars, apiVars>>

SpecDelete == InitDelete /\ [][NextDelete]_vars

\* ------------------------------------------- cache.py PermissionCache
\* Every operation runs under self._lock (a threading.Lock), so each one is
\* one atomic step whatever thread makes it.

\* storage ids and user ids of the requests
Storages == {1, 2}
Users == {1, 2}

\* models.py UserRole
Roles == {"viewer", "editor", "admin"}

\* the keys the calls of SpecCache read and write: two users of storage 1 and
\* one user of storage 2
Keys == {<<1, 1>>, <<1, 2>>, <<2, 1>>}

\* the (has_access, role) pairs the calls of SpecCache store: a grant and a
\* denial, as check_storage_permission stores them
Outcomes == {<<TRUE, "editor">>, <<FALSE, "viewer">>}

\* key = (storage_id, user_id)
Key(storage_id, user_id) == <<storage_id, user_id>>

\* the dict c without the keys ks
Without(c, ks) == [k \in DOMAIN c \ ks |-> c[k]]

\* A get that keeps an entry whose age equals the TTL.
FreshInclusive(cached_at) == now - cached_at <= ttl

\* datetime.utcnow() - cached_at < self.ttl
Fresh(cached_at) == now - cached_at < ttl

\* What get(storage_id, user_id) returns: (has_access, role) of a fresh
\* entry, None for a missing or an expired one.
GetResult(storage_id, user_id) ==
  LET key == Key(storage_id, user_id) IN
  IF key \in DOMAIN cache /\ Fresh(cache[key].cached_at)
    THEN <<cache[key].has_access, cache[key].role>>
    ELSE None

\* A get with sliding expiration: reading a fresh entry restarts its age.
CacheAfterGetSliding(storage_id, user_id) ==
  LET key == Key(storage_id, user_id) IN
  IF key \in DOMAIN cache
    THEN IF Fresh(cache[key].cached_at)
           THEN [cache EXCEPT ![key].cached_at = now]
           ELSE Without(cache, {key})
    ELSE cache

\* The dict after get(storage_id, user_id): an expired entry is deleted.
CacheAfterGet(storage_id, user_id) ==
  LET key == Key(storage_id, user_id) IN
  IF key \in DOMAIN cache /\ ~Fresh(cache[key].cached_at)
    THEN Without(cache, {key})
    ELSE cache

\* A set that keeps the timestamp of the entry it replaces.
CacheAfterSetKeepTime(storage_id, user_id, has_access, role) ==
  LET key == Key(storage_id, user_id) IN
  [k \in DOMAIN cache \cup {key} |->
     IF k = key
       THEN [has_access |-> has_access, role |-> role,
             cached_at |-> IF key \in DOMAIN cache THEN cache[key].cached_at ELSE now]
       ELSE cache[k]]

\* The dict after set(storage_id, user_id, has_access, role):
\* self._cache[key] = (has_access, role, datetime.utcnow())
CacheAfterSet(storage_id, user_id, has_access, role) ==
  LET key == Key(storage_id, user_id) IN
  [k \in DOMAIN cache \cup {key} |->
     IF k = key
       THEN [has_access |-> has_access, role |-> role, cached_at |-> now]
       ELSE cache[k]]

\* An invalidate that takes "no user" for the id of a user.
CacheAfterInvalidateOne(storage_id, user_id) ==
  Without(cache, {Key(storage_id, user_id)})

\* An invalidate that treats every call as a call for the whole storage.
CacheAfterInvalidateWide(storage_id, user_id) ==
  Without(cache, {k \in DOMAIN cache : k[1] = storage_id})

\* The dict after invalidate(storage_id, user_id); user_id = NoIndex is the
\* call without a user: every entry of the storage goes.
CacheAfterInvalidate(storage_id, user_id) ==
  IF user_id # NoIndex
    THEN Without(cache, {Key(storage_id, user_id)})
    ELSE Without(cache, {k \in DOMAIN cache : k[1] = storage_id})

\* The entry get finds under the key, as its timestamp; NoIndex if none.
FoundAt(storage_id, user_id) ==
  LET key == Key(storage_id, user_id) IN
  IF key \in DOMAIN cache THEN cache[key].cached_at ELSE NoIndex

\* The record of a call: its arguments, what it returned, the timestamp it
\* found under its key (get, set) and the keys of its storage that the dict
\* held before it (invalidate).
Operation(op, storage_id, user_id, ret, found_at, held) ==
  [op |-> op, storage_id |-> storage_id, user_id |-> user_id, ret |-> ret,
   found_at |-> found_at, held |-> held]

Get(storage_id, user_id) ==
  /\ cache' = CacheAfterGet(storage_id, user_id)
  /\ lastOp' = Operation("get", storage_id, user_id, GetResult(storage_id, user_id),
                         FoundAt(storage_id, user_id), {})
  /\ UNCHANGED <<ttl, now, written>>

Set(storage_id, user_id, has_access, role) ==
  /\ cache' = CacheAfterSet(storage_id, user_id, has_access, role)
  /\ lastOp' = Operation("set", storage_id, user_id, <<has_access, role>>,
                         FoundAt(storage_id, user_id), {})
  /\ written' = [k \in DOMAIN written \cup {Key(storage_id, user_id)} |->
                   IF k = Key(storage_id, user_id)
                     THEN [ret |-> <<has_access, role>>, at |-> now]
                     ELSE written[k]]
  /\ UNCHANGED <<ttl, now>>

Invalidate(storage_id, user_id) ==
  /\ cache' = CacheAfterInvalidate(storage_id, user_id)
  /\ lastOp' = Operation("invalidate", storage_id, user_id, None, NoIndex,
                         {k \in DOMAIN cache : k[1] = storage_id})
  /\ written' = Without(written, {k \in DOMAIN written :
                                    k[1] = storage_id /\ user_id \in {k[2], NoIndex}})
  /\ UNCHANGED <<ttl, now>>

\* clear(): self._cache.clear()
Clear ==
  /\ cache' = NoEntries
  /\ lastOp' = Operation("clear", 0, 0, None, NoIndex, {})
  /\ written' = NoEntries
  /\ UNCHANGED <<ttl, now>>

\* The clock advances by one unit.
Tick ==
  /\ now < MaxClock
  /\ now' = now + 1
  /\ UNCHANGED <<ttl, cache, lastOp, written>>

\* ------------------------------------------------------- SpecCache
\* One PermissionCache, built with any ttl, used by any sequence of calls.

InitCache ==
  /\ PoolInit(1, 0, <<>>, 0)
  /\ UploadIdle
  /\ DownloadIdle
  /\ DbEmpty
  /\ DeleteIdle
  /\ ttl \in 1..MaxTtl
  /\ cache = NoEntries
  /\ now = 0
  /\ lastOp = NoOp
  /\ written = NoEntries
  /\ AccessIdle
  /\ UploadFileIdle
  /\ LoggerIdle

NextCache ==
  \/ \E key \in Keys :
       Get(key[1], key[2]) /\ UNCHANGED <<poolVars, callVars, netVars, selLog, upVars, dlVars, dbVars, delVars, aclVars, rqVars, ufVars, logVars>>
  \/ \E key \in Keys : \E outcome \in Outcomes :
       Set(key[1], key[2], outcome[1], outcome[2]) /\ UNCHANGED <<poolVars, callVars, netVars, selLog, upVars, dlVars, dbVars, delVars, aclVars, rqVars, ufVars, logVars>>
  \/ \E storage_id \in Storages : \E user_id \in Users \cup {NoIndex} :
       Invalidate(storage_id, user_id) /\ UNCHANGED <<poolVars, callVars, netVars, selLog, upVars, dlVars, dbVars, delVars, aclVars, rqVars, ufVars, logVars>>
  \/ Clear /\ UNCHANGED <<poolVars, callVars, netVars, selLog, upVars, dlVars, dbVars, delVars, aclVars, rqVars, ufVars, logVars>>
  \/ Tick /\ UNCHANGED <<poolVars, callVars, netVars, selLog, upVars, dlVars, dbVars, delVars, aclVars, rqVars, ufVars, logVars>>

\* SpecCache has no fairness condition: its claims are about single calls.
SpecCache == InitCache /\ [][NextCache]_vars

\* ------------------------------- permissions.py check_storage_permission
\* The endpoints of routers/storage.py are plain functions: the server runs
\* each request on a thread of its pool, and the threads interleave between
\* their accesses to the cache and to the database. A step below is one such
\* access with the local computation that follows it.

\* the storages of SpecAccess, owned by user 1
StorageIds == {1}

\* the roles grant_permission and update_permission are asked to give
GrantedRoles == {"viewer", "editor"}

\* role_hierarchy
RoleLevel(role) ==
  CASE role = "viewer" -> 1
    [] role = "editor" -> 2
    [] role = "admin" -> 3

\* cached_result is not None, and
\* has_access and role_hierarchy[cached_role] >= role_hierarchy[required_role]
Sufficient(cached_result, required_role) ==
  /\ cached_result # None
  /\ cached_result[1]
  /\ RoleLevel(cached_result[2]) >= RoleLevel(required_role)

\* how a request ends: a return, or an HTTPException (403, 404 for the
\* storage, 404 for the permission, 400), or an IntegrityError
Responses ==
  {"returned", "forbidden", "not_found", "permission_not_found", "bad_request", "failed"}

\* The thread is free to take a request.
Free(t) == rq_pc[t] \in {"idle"} \cup Responses

\* Where the handler goes on when check_storage_permission has returned the
\* storage: get_storage returns it, the permission endpoints go on.
AfterCheck(t) == IF rq[t].endpoint = "check" THEN "returned" ELSE "mutate"

\* session.get(Storage, storage_id) finds a row
StorageExists(storage_id) == storage_id \in DOMAIN db_storages

\* A thread takes a request whose handler starts with
\* check_storage_permission(storage_id, required_role, user, session):
\* cached_result = cache.get(storage_id, user.id), and the test of line 34.
CheckStart(t, request) ==
  /\ Free(t)
  /\ LET cached_result == GetResult(request.storage_id, request.user_id) IN
       /\ rq' = [rq EXCEPT ![t] = [request EXCEPT !.cached = cached_result]]
       /\ rq_pc' = [rq_pc EXCEPT ![t] =
            IF Sufficient(cached_result, request.required_role) THEN "hit" ELSE "lookup"]
  /\ cache' = CacheAfterGet(request.storage_id, request.user_id)
  /\ UNCHANGED <<ttl, now, lastOp, written, aclVars>>

\* A hit that stores the entry again, with a new timestamp.
CheckHitRefresh(t) ==
  /\ rq_pc[t] = "hit"
  /\ rq_pc' = [rq_pc EXCEPT ![t] =
       IF StorageExists(rq[t].storage_id) THEN AfterCheck(t) ELSE "stale"]
  /\ cache' = CacheAfterSet(rq[t].storage_id, rq[t].user_id, TRUE, rq[t].cached[2])
  /\ UNCHANGED <<ttl, now, lastOp, written, aclVars, rq>>

\* Cache hit: storage = session.get(Storage, storage_id); if storage: return
CheckHit(t) ==
  /\ rq_pc[t] = "hit"
  /\ rq_pc' = [rq_pc EXCEPT ![t] =
       IF StorageExists(rq[t].storage_id) THEN AfterCheck(t) ELSE "stale"]
  /\ UNCHANGED <<cacheVars, lastOp, written, aclVars, rq>>

\* A stale hit that invalidates the entry of the requesting user only.
CheckStaleOne(t) ==
  /\ rq_pc[t] = "stale"
  /\ cache' = CacheAfterInvalidate(rq[t].storage_id, rq[t].user_id)
  /\ rq_pc' = [rq_pc EXCEPT ![t] = "lookup"]
  /\ UNCHANGED <<ttl, now, lastOp, written, aclVars, rq>>

\* Storage was deleted, invalidate cache: cache.invalidate(storage_id)
CheckStale(t) ==
  /\ rq_pc[t] = "stale"
  /\ cache' = CacheAfterInvalidate(rq[t].storage_id, NoIndex)
  /\ rq_pc' = [rq_pc EXCEPT ![t] = "lookup"]
  /\ UNCHANGED <<ttl, now, lastOp, written, aclVars, rq>>

\* Cache miss: storage = session.get(Storage, storage_id); 404 if none;
\* the owner test of line 51.
CheckLookup(t) ==
  /\ rq_pc[t] = "lookup"
  /\ rq_pc' = [rq_pc EXCEPT ![t] =
       IF ~StorageExists(rq[t].storage_id) THEN "not_found"
       ELSE IF db_storages[rq[t].storage_id] = rq[t].user_id THEN "set_owner"
       ELSE "query"]
  /\ UNCHANGED <<cacheVars, lastOp, written, aclVars, rq>>

\* Owner has all permissions: cache.set(storage_id, user.id, True, ADMIN)
CheckSetOwner(t) ==
  /\ rq_pc[t] = "set_owner"
  /\ cache' = CacheAfterSet(rq[t].storage_id, rq[t].user_id, TRUE, "admin")
  /\ rq_pc' = [rq_pc EXCEPT ![t] = AfterCheck(t)]
  /\ UNCHANGED <<ttl, now, lastOp, written, aclVars, rq>>

\* permission = session.exec(select(StoragePermission).where(...)).first()
CheckQuery(t) ==
  /\ rq_pc[t] = "query"
  /\ LET key == Key(rq[t].storage_id, rq[t].user_id) IN
       rq' = [rq EXCEPT ![t].permission =
                IF key \in DOMAIN db_permissions THEN <<db_permissions[key]>> ELSE None]
  /\ rq_pc' = [rq_pc EXCEPT ![t] = "set"]
  /\ UNCHANGED <<cacheVars, lastOp, written, aclVars>>

\* A check that caches nothing for a user without a permission.
CheckSetGrantsOnly(t) ==
  /\ rq_pc[t] = "set"
  /\ IF rq[t].permission = None
       THEN /\ UNCHANGED cache
            /\ rq_pc' = [rq_pc EXCEPT ![t] = "forbidden"]
       ELSE /\ cache' = CacheAfterSet(rq[t].storage_id, rq[t].user_id, TRUE,
                                      rq[t].permission[1])
            /\ rq_pc' = [rq_pc EXCEPT ![t] =
                 IF RoleLevel(rq[t].permission[1]) < RoleLevel(rq[t].required_role)
                   THEN "forbidden" ELSE AfterCheck(t)]
  /\ UNCHANGED <<ttl, now, lastOp, written, aclVars, rq>>

\* No permission: cache.set(..., False, VIEWER) and 403. A permission:
\* cache.set(..., True, permission.role), then 403 if the role is too low.
CheckSet(t) ==
  /\ rq_pc[t] = "set"
  /\ IF rq[t].permission = None
       THEN /\ cache' = CacheAfterSet(rq[t].storage_id, rq[t].user_id, FALSE, "viewer")
            /\ rq_pc' = [rq_pc EXCEPT ![t] = "forbidden"]
       ELSE /\ cache' = CacheAfterSet(rq[t].storage_id, rq[t].user_id, TRUE,
                                      rq[t].permission[1])
            /\ rq_pc' = [rq_pc EXCEPT ![t] =
                 IF RoleLevel(rq[t].permission[1]) < RoleLevel(rq[t].required_role)
                   THEN "forbidden" ELSE AfterCheck(t)]
  /\ UNCHANGED <<ttl, now, lastOp, written, aclVars, rq>>

\* ------------------------------------------------- routers/storage.py

\* the table with the row of the key set to role
WithPermission(key, role) ==
  [k \in DOMAIN db_permissions \cup {key} |-> IF k = key THEN role ELSE db_permissions[k]]

\* grant_permission, update_permission, revoke_permission after the check:
\* the query for the row of (storage_id, user_id), the 400 or 404, and the
\* commit of the change.
Mutate(t) ==
  /\ rq_pc[t] = "mutate"
  /\ LET key == Key(rq[t].storage_id, rq[t].target)
         existing == key \in DOMAIN db_permissions
     IN CASE rq[t].endpoint = "grant" ->
               IF existing
                 THEN /\ rq_pc' = [rq_pc EXCEPT ![t] = "bad_request"]
                      /\ UNCHANGED db_permissions
                 ELSE /\ rq_pc' = [rq_pc EXCEPT ![t] = "invalidate"]
                      /\ db_permissions' = WithPermission(key, rq[t].role)
          [] rq[t].endpoint = "update" ->
               IF ~existing
                 THEN /\ rq_pc' = [rq_pc EXCEPT ![t] = "permission_not_found"]
                      /\ UNCHANGED db_permissions
                 ELSE /\ rq_pc' = [rq_pc EXCEPT ![t] = "invalidate"]
                      /\ db_permissions' = WithPermission(key, rq[t].role)
          [] rq[t].endpoint = "revoke" ->
               IF ~existing
                 THEN /\ rq_pc' = [rq_pc EXCEPT ![t] = "permission_not_found"]
                      /\ UNCHANGED db_permissions
                 ELSE /\ rq_pc' = [rq_pc EXCEPT ![t] = "invalidate"]
                      /\ db_permissions' = Without(db_permissions, {key})
  /\ UNCHANGED <<cacheVars, lastOp, written, db_storages, rq>>

\* An endpoint that returns after the commit, leaving the cache as it is.
MutateKeepCache(t) ==
  /\ rq_pc[t] = "invalidate"
  /\ rq_pc' = [rq_pc EXCEPT ![t] = "returned"]
  /\ UNCHANGED <<cacheVars, lastOp, written, aclVars, rq>>

\* cache.invalidate(storage_id, user_id) and the return
MutateInvalidate(t) ==
  /\ rq_pc[t] = "invalidate"
  /\ cache' = CacheAfterInvalidate(rq[t].storage_id, rq[t].target)
  /\ rq_pc' = [rq_pc EXCEPT ![t] = "returned"]
  /\ UNCHANGED <<ttl, now, lastOp, written, aclVars, rq>>

\* delete_storage(storage_id) by user_id: 404, 403, or session.delete and
\* commit. The relationship to the permissions has no cascade and their
\* storage_id is not nullable: with rows left the flush fails where the
\* constraint is enforced, and detaches the rows where it is not.
DeleteStorage(t, storage_id, user_id) ==
  /\ Free(t)
  /\ rq' = [rq EXCEPT ![t] = Request("delete_storage", storage_id, user_id, "admin", 0, "viewer")]
  /\ LET rows == {k \in DOMAIN db_permissions : k[1] = storage_id} IN
       IF ~StorageExists(storage_id)
         THEN /\ rq_pc' = [rq_pc EXCEPT ![t] = "not_found"]
              /\ UNCHANGED aclVars
       ELSE IF db_storages[storage_id] # user_id
         THEN /\ rq_pc' = [rq_pc EXCEPT ![t] = "forbidden"]
              /\ UNCHANGED aclVars
       ELSE \/ /\ rows # {}
               /\ rq_pc' = [rq_pc EXCEPT ![t] = "failed"]
               /\ UNCHANGED aclVars
            \/ /\ rq_pc' = [rq_pc EXCEPT ![t] = "returned"]
               /\ db_storages' = Without(db_storages, {storage_id})
               /\ db_permissions' = Without(db_permissions, rows)
  /\ UNCHANGED <<cacheVars, lastOp, written>>

\* ------------------------------------------------------- SpecAccess
\* The storages of StorageIds exist, owned by user 1; the threads serve any
\* requests of the users while the clock advances.

\* Thread t serves the requests of user t: user 1 is the owner, user 2 the
\* user the owner gives permissions to.
UserOf(t) == t

\* The requests of a user that start with check_storage_permission: the
\* owner reads the storage and manages the permissions of user 2, user 2
\* asks for what needs any of the roles.
Requests(user_id) ==
  IF user_id = 1
    THEN {Request("check", storage_id, 1, "viewer", 0, "viewer") : storage_id \in StorageIds}
         \cup
         {Request(endpoint, storage_id, 1, "admin", 2, role) :
            endpoint \in {"grant", "update"}, storage_id \in StorageIds, role \in GrantedRoles}
         \cup
         {Request("revoke", storage_id, 1, "admin", 2, "viewer") : storage_id \in StorageIds}
    ELSE {Request("check", storage_id, user_id, required_role, 0, "viewer") :
            storage_id \in StorageIds, required_role \in Roles}

InitAccess ==
  /\ PoolInit(1, 0, <<>>, 0)
  /\ UploadIdle
  /\ DownloadIdle
  /\ DbEmpty
  /\ DeleteIdle
  /\ CacheIdle
  /\ lastOp = NoOp
  /\ written = NoEntries
  /\ db_storages = [storage_id \in StorageIds |-> 1]
  /\ db_permissions = NoEntries
  /\ rq_pc = [t \in Threads |-> "idle"]
  /\ rq = [t \in Threads |-> NoRequest]
  /\ UploadFileIdle
  /\ LoggerIdle

NextAccess ==
  \/ \E t \in Threads : \E request \in Requests(UserOf(t)) :
       CheckStart(t, request) /\ UNCHANGED <<poolVars, callVars, netVars, selLog, upVars, dlVars, dbVars, delVars, ufVars, logVars>>
  \/ \E t \in Threads :
       CheckHit(t) /\ UNCHANGED <<poolVars, callVars, netVars, selLog, upVars, dlVars, dbVars, delVars, ufVars, logVars>>
  \/ \E t \in Threads :
       CheckStale(t) /\ UNCHANGED <<poolVars, callVars, netVars, selLog, upVars, dlVars, dbVars, delVars, ufVars, logVars>>
  \/ \E t \in Threads :
       CheckLookup(t) /\ UNCHANGED <<poolVars, callVars, netVars, selLog, upVars, dlVars, dbVars, delVars, ufVars, logVars>>
  \/ \E t \in Threads :
       CheckSetOwner(t) /\ UNCHANGED <<poolVars, callVars, netVars, selLog, upVars, dlVars, dbVars, delVars, ufVars, logVars>>
  \/ \E t \in Threads :
       CheckQuery(t) /\ UNCHANGED <<poolVars, callVars, netVars, selLog, upVars, dlVars, dbVars, delVars, ufVars, logVars>>
  \/ \E t \in Threads :
       CheckSet(t) /\ UNCHANGED <<poolVars, callVars, netVars, selLog, upVars, dlVars, dbVars, delVars, ufVars, logVars>>
  \/ \E t \in Threads :
       Mutate(t) /\ UNCHANGED <<poolVars, callVars, netVars, selLog, upVars, dlVars, dbVars, delVars, ufVars, logVars>>
  \/ \E t \in Threads :
       MutateInvalidate(t) /\ UNCHANGED <<poolVars, callVars, netVars, selLog, upVars, dlVars, dbVars, delVars, ufVars, logVars>>
  \/ \E t \in Threads : \E storage_id \in StorageIds :
       DeleteStorage(t, storage_id, UserOf(t)) /\ UNCHANGED <<poolVars, callVars, netVars, selLog, upVars, dlVars, dbVars, delVars, ufVars, logVars>>
  \/ Tick /\ UNCHANGED <<poolVars, callVars, netVars, selLog, upVars, dlVars, dbVars, delVars, aclVars, rqVars, ufVars, logVars>>

\* SpecAccess has no fairness condition: its claims are about steps.
SpecAccess == InitAccess /\ [][NextAccess]_vars

\* ---------------------------------------------------- SpecAccessSeq
\* The requests of SpecAccess executed one at a time: a thread steps only
\* while no other thread is inside a request; the clock advances at any
\* point.

\* No thread but t is inside a request.
OneAtATime(t) == \A u \in Threads \ {t} : Free(u)

NextAccessSeq ==
  \/ \E t \in Threads :
       OneAtATime(t) /\ (\E request \in Requests(UserOf(t)) : CheckStart(t, request)) /\ UNCHANGED <<poolVars, callVars, netVars, selLog, upVars, dlVars, dbVars, delVars, ufVars, logVars>>
  \/ \E t \in Threads :
       OneAtATime(t) /\ (CheckHit(t)) /\ UNCHANGED <<poolVars, callVars, netVars, selLog, upVars, dlVars, dbVars, delVars, ufVars, logVars>>
  \/ \E t \in Threads :
       OneAtATime(t) /\ (CheckStale(t)) /\ UNCHANGED <<poolVars, callVars, netVars, selLog, upVars, dlVars, dbVars, delVars, ufVars, logVars>>
  \/ \E t \in Threads :
       OneAtATime(t) /\ (CheckLookup(t)) /\ UNCHANGED <<poolVars, callVars, netVars, selLog, upVars, dlVars, dbVars, delVars, ufVars, logVars>>
  \/ \E t \in Threads :
       OneAtATime(t) /\ (CheckSetOwner(t)) /\ UNCHANGED <<poolVars, callVars, netVars, selLog, upVars, dlVars, dbVars, delVars, ufVars, logVars>>
  \/ \E t \in Threads :
       OneAtATime(t) /\ (CheckQuery(t)) /\ UNCHANGED <<poolVars, callVars, netVars, selLog, upVars, dlVars, dbVars, delVars, ufVars, logVars>>
  \/ \E t \in Threads :
       OneAtATime(t) /\ (CheckSet(t)) /\ UNCHANGED <<poolVars, callVars, netVars, selLog, upVars, dlVars, dbVars, delVars, ufVars, logVars>>
  \/ \E t \in Threads :
       OneAtATime(t) /\ (Mutate(t)) /\ UNCHANGED <<poolVars, callVars, netVars, selLog, upVars, dlVars, dbVars, delVars, ufVars, logVars>>
  \/ \E t \in Threads :
       OneAtATime(t) /\ (MutateInvalidate(t)) /\ UNCHANGED <<poolVars, callVars, netVars, selLog, upVars, dlVars, dbVars, delVars, ufVars, logVars>>
  \/ \E t \in Threads :
       OneAtATime(t) /\ (\E storage_id \in StorageIds : DeleteStorage(t, storage_id, UserOf(t))) /\ UNCHANGED <<poolVars, callVars, netVars, selLog, upVars, dlVars, dbVars, delVars, ufVars, logVars>>
  \/ Tick /\ UNCHANGED <<poolVars, callVars, netVars, selLog, upVars, dlVars, dbVars, delVars, aclVars, rqVars, ufVars, logVars>>

SpecAccessSeq == InitAccess /\ [][NextAccessSeq]_vars

\* ------------------------------------------- routers/files.py upload_file
\* The request has passed check_storage_permission (line 37) and its body has
\* been read (line 40): data is the content, file_stream its stream.

\* db_file.id: the ids of the rows are given in sequence
NewFileId == Cardinality(db_files) + 1

\* db_file = File(...); session.add(db_file); session.commit(); then
\* stream_upload is awaited.
UploadFileStart ==
  /\ uf_pc = "idle"
  /\ uf_pc' = "uploading"
  /\ uf_file' = NewFileId
  /\ db_files' = db_files \cup {NewFileId}
  /\ UNCHANGED db_chunks

\* The rows upload_file adds for the descriptors ds: one FileChunk each.
ChunkRows(file_id, ds) ==
  [i \in 1..Len(ds) |->
     FileChunk(Len(db_chunks) + i, file_id, ds[i].chunk_idx, ds[i].size,
               ds[i].message_id, ds[i].bot_index)]

\* An except branch that rolls back and keeps the file record.
UploadFileAfterRollbackOnly ==
  /\ uf_file' = uf_file
  /\ CASE up_pc' = "returned" ->
            /\ db_chunks' = db_chunks \o ChunkRows(uf_file, chunks_metadata')
            /\ uf_pc' = "returned"
            /\ UNCHANGED db_files
       [] up_pc' = "raised" ->
            /\ uf_pc' = "failed"
            /\ UNCHANGED <<db_files, db_chunks>>
       [] OTHER -> UNCHANGED <<uf_pc, db_files, db_chunks>>

\* What upload_file does when the step of stream_upload is its last one, in
\* the same turn of the event loop (there is no await in between).  It
\* returned: the chunk rows are added and committed, and the response is
\* sent.  It raised: session.rollback(), session.delete(db_file),
\* session.commit(), and a 500.
UploadFileAfter ==
  /\ uf_file' = uf_file
  /\ CASE up_pc' = "returned" ->
            /\ db_chunks' = db_chunks \o ChunkRows(uf_file, chunks_metadata')
            /\ uf_pc' = "returned"
            /\ UNCHANGED db_files
       [] up_pc' = "raised" ->
            /\ uf_pc' = "failed"
            /\ db_files' = db_files \ {uf_file}
            /\ UNCHANGED db_chunks
       [] OTHER -> UNCHANGED <<uf_pc, db_files, db_chunks>>

\* ------------------------------------------------------- SpecUpload
\* One upload_file request, for a storage that holds a file without chunks.

InitUpload ==
  /\ \E n \in 1..MaxBots : \E c \in 0..(n - 1) : PoolInit(n, c, <<>>, MaxStreamRetryAfter)
  /\ UploadInit
  /\ DownloadIdle
  /\ db_files = {1}
  /\ db_chunks = <<>>
  /\ DeleteIdle
  /\ CacheIdle
  /\ lastOp = NoOp
  /\ written = NoEntries
  /\ AccessIdle
  /\ UploadFileIdle
  /\ LoggerIdle

NextUpload ==
  \/ UploadFileStart /\ UNCHANGED <<poolVars, callVars, netVars, selLog, upVars, dlVars, delVars, accessVars, logVars>>
  \/ \E n \in 0..MaxSize :
       uf_pc = "uploading" /\ StreamPiece(n) /\ UploadFileAfter /\ UNCHANGED <<poolVars, callVars, netVars, selLog, dlVars, delVars, accessVars, logVars>>
  \/ uf_pc = "uploading" /\ StreamEnd /\ UploadFileAfter /\ UNCHANGED <<dlVars, delVars, accessVars, logVars>>
  \/ uf_pc = "uploading" /\ SequentialNext /\ UploadFileAfter /\ UNCHANGED <<dlVars, delVars, accessVars, logVars>>
  \/ uf_pc = "uploading" /\ SequentialRaise /\ UploadFileAfter /\ UNCHANGED <<dlVars, delVars, accessVars, logVars>>
  \/ \E t \in Tasks :
       uf_pc = "uploading" /\ TaskStart(t) /\ UploadFileAfter /\ UNCHANGED <<dlVars, delVars, accessVars, logVars>>
  \/ uf_pc = "uploading" /\ GatherReturn /\ UploadFileAfter /\ UNCHANGED <<dlVars, delVars, accessVars, logVars>>
  \/ uf_pc = "uploading" /\ GatherRaise /\ UploadFileAfter /\ UNCHANGED <<dlVars, delVars, accessVars, logVars>>
  \/ \E t \in Tasks : Acquire(t) /\ UNCHANGED <<upVars, dlVars, dbVars, delVars, apiVars>>
  \/ \E t \in Tasks : SendOk(t) /\ UNCHANGED <<upVars, dlVars, dbVars, delVars, apiVars>>
  \/ \E t \in Tasks : RateLimited(t) /\ UNCHANGED <<upVars, dlVars, dbVars, delVars, apiVars>>
  \/ \E t \in Tasks : Retry(t) /\ UNCHANGED <<upVars, dlVars, dbVars, delVars, apiVars>>
  \/ \E t \in Tasks : Fault(t) /\ UNCHANGED <<upVars, dlVars, dbVars, delVars, apiVars>>

\* SpecUpload has no fairness condition: its claim is about the states reached.
SpecUpload == InitUpload /\ [][NextUpload]_vars

\* ----------------------------------------- routers/files.py download_file
\* The request has passed check_storage_permission (line 179).

\* .order_by(FileChunk.chunk_index): the rows in ascending chunk_index
RECURSIVE OrderedByIndex(_)
OrderedByIndex(rows) ==
  IF rows = <<>> THEN <<>>
  ELSE LET k == CHOOSE i \in DOMAIN rows :
                  \A j \in DOMAIN rows : rows[i].chunk_index <= rows[j].chunk_index
       IN <<rows[k]>> \o OrderedByIndex(FirstN(rows, k - 1) \o DropN(rows, k))

\* chunks_data: (chunk.telegram_file_id, chunk.telegram_bot_token_index)
ChunksData(rows) ==
  [i \in 1..Len(rows) |-> [file_id |-> rows[i].telegram_file_id,
                           bot_index |-> rows[i].telegram_bot_token_index]]

\* download_file(file_id), made when the upload request is over: 404 for an
\* unknown file, 500 "File has no chunks" for a file without chunk rows;
\* otherwise the response streams stream_download(chunks_data) and the
\* server pulls.
DownloadFile(file_id) ==
  /\ uf_pc = "returned"
  /\ dl_pc = "idle"
  /\ LET rows == OrderedByIndex(FileChunksOf(file_id)) IN
       IF file_id \notin db_files
         THEN /\ dl_pc' = "not_found"
              /\ UNCHANGED <<chunks, download_queue, pending_tasks, chunk_index,
                             next_yield_index, yielded, yieldLog, callVars>>
       ELSE IF rows = <<>>
         THEN /\ dl_pc' = "no_chunks"
              /\ UNCHANGED <<chunks, download_queue, pending_tasks, chunk_index,
                             next_yield_index, yielded, yieldLog, callVars>>
       ELSE /\ StreamDownloadStart(ChunksData(rows))
            /\ CallsCleared
  /\ UNCHANGED <<poolVars, netVars, selLog>>

\* ------------------------------------------------------- SpecFile
\* One upload_file request and, when it has succeeded, one download_file
\* request for the new file.

NextFile ==
  \/ NextUpload
  \/ DownloadFile(uf_file) /\ UNCHANGED <<upVars, dbVars, delVars, apiVars>>
  \/ SequentialCall /\ UNCHANGED <<upVars, dbVars, delVars, apiVars>>
  \/ SequentialYield /\ UNCHANGED <<upVars, dbVars, delVars, apiVars>>
  \/ SequentialPull /\ UNCHANGED <<upVars, dbVars, delVars, apiVars>>
  \/ \E k \in 0..(MaxSize - 1) : DownloadTaskStart(k) /\ UNCHANGED <<upVars, dbVars, delVars, apiVars>>
  \/ Yield /\ UNCHANGED <<upVars, dbVars, delVars, apiVars>>
  \/ YieldRaise /\ UNCHANGED <<upVars, dbVars, delVars, apiVars>>
  \/ Pull /\ UNCHANGED <<upVars, dbVars, delVars, apiVars>>
  \/ \E t \in Tasks : FetchOk(t) /\ UNCHANGED <<upVars, dlVars, dbVars, delVars, apiVars>>

\* SpecFile has no fairness condition: its claim is refuted by a reachable state.
SpecFile == InitUpload /\ [][NextFile]_vars

\* ------------------------------------------------- activity_logger.py
\* The producers are the handlers of routers/files.py, which call
\* log_activity_async on the event loop; the consumer is the one daemon
\* thread start_activity_logger creates; stop_activity_logger runs in the
\* shutdown event of the application.  The Queue makes each put and get one
\* atomic step.

\* _activity_queue is not None
Started == worker_pc # "unstarted"

\* A put_nowait that appends to a full queue.
PutUnbounded(q, item) == Append(q, item)

\* The queue after put_nowait(item) on the queue q: queue.Full is raised on
\* a full queue, and the caller's except skips the activity.
PutNowait(q, item) == IF Len(q) >= MaxQueue THEN q ELSE Append(q, item)

\* start_activity_logger(), called by the startup event: the queue, the flag
\* and the thread are created together, once.
StartActivityLogger ==
  /\ ~Started
  /\ stop_pc = "idle"
  /\ activity_queue' = <<>>
  /\ shutdown' = FALSE
  /\ worker_pc' = "test"
  /\ UNCHANGED <<activity_data, stop_pc, activities, log_calls, skipped>>

\* log_activity_async(...): start_activity_logger() if there is no queue,
\* then put_nowait(activity_data); on queue.Full the warning, and the return.
LogActivityAsync ==
  /\ log_calls < MaxActivities
  /\ log_calls' = log_calls + 1
  /\ worker_pc' = IF Started THEN worker_pc ELSE "test"
  /\ shutdown' = IF Started THEN shutdown ELSE FALSE
  /\ activity_queue' = PutNowait(activity_queue, log_calls + 1)
  /\ skipped' = IF Len(activity_queue) >= MaxQueue
                  THEN skipped \cup {log_calls + 1} ELSE skipped
  /\ UNCHANGED <<activity_data, stop_pc, activities>>

\* while not _shutdown:
WorkerTest ==
  /\ worker_pc = "test"
  /\ worker_pc' = IF shutdown THEN "done" ELSE "get"
  /\ UNCHANGED <<activity_queue, shutdown, activity_data, stop_pc, activities, log_calls,
                 skipped>>

\* activity_data = _activity_queue.get(timeout=1): the oldest entry; None
\* ends the loop; on an empty queue queue.Empty is raised after the timeout
\* and the bare except goes on with the loop.
WorkerGet ==
  /\ worker_pc = "get"
  /\ IF activity_queue = <<>>
       THEN /\ worker_pc' = "test"
            /\ UNCHANGED <<activity_queue, activity_data>>
       ELSE /\ activity_queue' = Tail(activity_queue)
            /\ IF Head(activity_queue) = Sentinel
                 THEN /\ worker_pc' = "done"
                      /\ UNCHANGED activity_data
                 ELSE /\ worker_pc' = "write"
                      /\ activity_data' = Head(activity_queue)
  /\ UNCHANGED <<shutdown, stop_pc, activities, log_calls, skipped>>

\* The session block: the row is added and committed, or an exception is
\* logged and the activity is lost; then task_done().
WorkerWrite(committed) ==
  /\ worker_pc = "write"
  /\ activities' = IF committed THEN Append(activities, activity_data) ELSE activities
  /\ activity_data' = Sentinel
  /\ worker_pc' = "test"
  /\ UNCHANGED <<activity_queue, shutdown, stop_pc, log_calls, skipped>>

\* stop_activity_logger(): nothing without a queue; otherwise
\* _shutdown = True.
StopActivityLogger ==
  /\ stop_pc = "idle"
  /\ IF Started
       THEN /\ shutdown' = TRUE
            /\ stop_pc' = "put"
       ELSE /\ stop_pc' = "returned"
            /\ UNCHANGED shutdown
  /\ UNCHANGED <<activity_queue, worker_pc, activity_data, activities, log_calls, skipped>>

\* _activity_queue.put(None): a put without a timeout, which waits while the
\* queue is full.
StopPut ==
  /\ stop_pc = "put"
  /\ Len(activity_queue) < MaxQueue
  /\ activity_queue' = Append(activity_queue, Sentinel)
  /\ stop_pc' = "join"
  /\ UNCHANGED <<shutdown, worker_pc, activity_data, activities, log_calls, skipped>>

\* _activity_thread.join(timeout=5): returns when the thread has ended, and
\* after five seconds if it has not.
StopJoin ==
  /\ stop_pc = "join"
  /\ stop_pc' = "returned"
  /\ UNCHANGED <<activity_queue, shutdown, worker_pc, activity_data, activities, log_calls,
                 skipped>>

\* ------------------------------------------------------- SpecLogger
\* The application from its import to its shutdown: any number of
\* log_activity_async calls up to MaxActivities, at any point.

InitLogger ==
  /\ PoolInit(1, 0, <<>>, 0)
  /\ UploadIdle
  /\ DownloadIdle
  /\ DbEmpty
  /\ DeleteIdle
  /\ CacheIdle
  /\ lastOp = NoOp
  /\ written = NoEntries
  /\ AccessIdle
  /\ UploadFileIdle
  /\ LoggerIdle

NextLogger ==
  \/ StartActivityLogger /\ UNCHANGED <<poolVars, callVars, netVars, selLog, upVars, dlVars, dbVars, delVars, accessVars, ufVars>>
  \/ LogActivityAsync /\ UNCHANGED <<poolVars, callVars, netVars, selLog, upVars, dlVars, dbVars, delVars, accessVars, ufVars>>
  \/ WorkerTest /\ UNCHANGED <<poolVars, callVars, netVars, selLog, upVars, dlVars, dbVars, delVars, accessVars, ufVars>>
  \/ WorkerGet /\ UNCHANGED <<poolVars, callVars, netVars, selLog, upVars, dlVars, dbVars, delVars, accessVars, ufVars>>
  \/ \E committed \in BOOLEAN : WorkerWrite(committed) /\ UNCHANGED <<poolVars, callVars, netVars, selLog, upVars, dlVars, dbVars, delVars, accessVars, ufVars>>
  \/ StopActivityLogger /\ UNCHANGED <<poolVars, callVars, netVars, selLog, upVars, dlVars, dbVars, delVars, accessVars, ufVars>>
  \/ StopPut /\ UNCHANGED <<poolVars, callVars, netVars, selLog, upVars, dlVars, dbVars, delVars, accessVars, ufVars>>
  \/ StopJoin /\ UNCHANGED <<poolVars, callVars, netVars, selLog, upVars, dlVars, dbVars, delVars, accessVars, ufVars>>

\* SpecLogger has no fairness condition: its claims are about the states
\* reached and about single steps.
SpecLogger == InitLogger /\ [][NextLogger]_vars

\* ------------------------------------------------------------ claims
RECURSIVE Concat(_)
Concat(ss) == IF ss = <<>> THEN <<>> ELSE Head(ss) \o Concat(Tail(ss))

RECURSIVE SumSizes(_)
SumSizes(ds) == IF ds = <<>> THEN 0 ELSE Head(ds).size + SumSizes(Tail(ds))

CeilDiv(a, b) == (a + b - 1) \div b

\* The network operations in flight on bot w: the calls whose innermost frame
\* is inside send_document / get_file / delete_message of bot w.
InFlight(w) == {t \in Tasks : pc[t] = "net" /\ Last(stack[t]) = w}

\* C1: stream_download yields the chunks in strictly ascending index order
\* 0, 1, 2, ... whatever the order in which the concurrent fetches complete:
\* the i-th buffer the consumer receives is chunk i-1.
C1_YieldAscending == \A i \in DOMAIN yieldLog : yieldLog[i] = i - 1

\* Two chunks have been yielded and, of the fetches still pending, a later one
\* has completed while an earlier one is still in flight.
C1_Witness ==
  /\ Len(yieldLog) >= 2
  /\ \E j, k \in pending_tasks :
       j < k /\ pc[DownloadTask(j)] = "net" /\ pc[DownloadTask(k)] = "done"

\* C2: round trip.  When the stream_download of the descriptors stream_upload
\* returned (in the returned order) has ended, the concatenation of the yielded
\* buffers is the uploaded data; before that it is a prefix of the data.
C2_RoundTrip ==
  /\ Concat(yielded) = SubSeq(data, 1, Len(Concat(yielded)))
  /\ dl_pc = "ended" => Concat(yielded) = data

\* A download of more chunks than the window has ended, on a pool of several
\* bots, after a rate-limit signal.
C2_Witness ==
  /\ dl_pc = "ended"
  /\ Len(yielded) > DownloadWindow
  /\ bot_count > 1
  /\ retryAfterLeft < MaxStreamRetryAfter

\* C3: a stream_upload that returns, for a stream of S bytes and chunk size C,
\* returns ceil(S/C) descriptors, whose indices are 0..count-1, each once, and
\* whose sizes sum to S.
C3_CountIndicesSizes ==
  up_pc = "returned" =>
    /\ Len(chunks_metadata) = CeilDiv(Len(data), chunk_size)
    /\ {chunks_metadata[i].chunk_idx : i \in DOMAIN chunks_metadata} = 0..(Len(chunks_metadata) - 1)
    /\ SumSizes(chunks_metadata) = Len(data)

\* An upload of several chunks has returned, the size not a multiple of the
\* chunk size.
C3_Witness ==
  /\ up_pc = "returned"
  /\ Len(chunks_metadata) >= 2
  /\ Len(data) % chunk_size # 0

\* C4: however the stream is cut into pieces, every chunk but the last has
\* exactly chunk_size bytes and the last has between 1 and chunk_size bytes;
\* while the stream is being read every chunk cut so far has chunk_size bytes.
C4_ChunkSizes ==
  \A i \in DOMAIN chunks_to_upload :
    IF up_pc = "collect" \/ i < Len(chunks_to_upload)
      THEN Len(chunks_to_upload[i].chunk_data) = chunk_size
      ELSE /\ Len(chunks_to_upload[i].chunk_data) >= 1
           /\ Len(chunks_to_upload[i].chunk_data) <= chunk_size

\* The stream has ended with several chunks, the last one short.
C4_Witness ==
  /\ up_pc # "collect"
  /\ Len(chunks_to_upload) >= 2
  /\ Len(Last(chunks_to_upload).chunk_data) < chunk_size

\* C5: the list stream_upload returns is sorted ascending by chunk index,
\* whatever the order in which the uploads completed.
C5_SortedByIndex ==
  up_pc = "returned" =>
    \A i, j \in DOMAIN chunks_metadata :
      i < j => chunks_metadata[i].chunk_idx < chunks_metadata[j].chunk_idx

\* A parallel upload has returned whose uploads completed out of order (the
\* transport numbers the messages in the order it stores them).
C5_Witness ==
  /\ up_pc = "returned"
  /\ ParallelUploads(chunks_to_upload) > 1
  /\ \E i, j \in DOMAIN chunks_metadata :
       i < j /\ chunks_metadata[i].message_id > chunks_metadata[j].message_id

\* C6: at every instant each bot has at most one network operation (send,
\* fetch or delete) in flight.
C6_OneInFlightPerBot == \A w \in Bots : Cardinality(InFlight(w)) <= 1

\* A call retrying after a rate-limit signal has its network operation in
\* flight on a bot while another call waits for that bot.
C6_Witness ==
  \E t, u \in Tasks :
    /\ pc[t] = "net" /\ Len(stack[t]) >= 2
    /\ pc[u] = "wait" /\ want[u] = Last(stack[t])

\* C7: any bot_count consecutive cursor selections of get_bot return every bot
\* exactly once: no bot occurs twice among bot_count (or fewer) consecutive
\* cursor selections, whatever explicit-index calls come between them.
C7_RoundRobin ==
  /\ \A i, j \in DOMAIN selLog : i # j => selLog[i] # selLog[j]
  /\ Len(selLog) = bot_count => RangeOf(selLog) = Bots

\* More than bot_count cursor selections have been made on a pool of several
\* bots (the window no longer starts at the first selection) and a call with
\* an explicit index is in progress.
C7_Witness ==
  /\ bot_count >= 2
  /\ Len(selLog) = bot_count
  /\ selLog[1] # 0
  /\ \E t \in Tasks : kind[t] = "upload" /\ args[t].bot_index \in Bots

\* C8: every descriptor stream_upload returns carries the index of the bot
\* that sent the document, as the transport recorded it.
C8_DescriptorBot ==
  up_pc = "returned" =>
    \A i \in DOMAIN chunks_metadata :
      /\ chunks_metadata[i].file_id \in DOMAIN store
      /\ store[chunks_metadata[i].file_id].bot = chunks_metadata[i].bot_index
      /\ store[chunks_metadata[i].file_id].bytes = chunks_to_upload[i].chunk_data

\* An upload has returned, before any download, in which a chunk was sent by
\* another bot than the one selected first for it: a send was rate-limited and
\* the retry went through the next bot.
C8_Witness ==
  /\ up_pc = "returned" /\ dl_pc = "idle"
  /\ retryAfterLeft < MaxStreamRetryAfter
  /\ LET first == (current_index + 2 * bot_count - Len(chunks_metadata) - 1) % bot_count
     IN \E i \in DOMAIN chunks_metadata :
          chunks_metadata[i].bot_index # (first + chunks_metadata[i].chunk_idx) % bot_count

\* C9: every fetch of a download_chunk call, the retries included, goes through
\* the bot whose index the call was given: every frame of the call holds that
\* bot's lock, and a frame that waits, waits for that bot.
C9_DownloadSameBot ==
  \A t \in Tasks :
    kind[t] = "download" =>
      /\ \A i \in DOMAIN stack[t] : stack[t][i] = args[t].bot_index
      /\ pc[t] = "wait" => want[t] = args[t].bot_index

\* A download_chunk call was rate-limited and its retry is queued on the bot
\* it was given.
C9_Witness ==
  \E t \in Tasks :
    /\ kind[t] = "download" /\ pc[t] = "wait"
    /\ Len(stack[t]) = 1
    /\ want[t] = args[t].bot_index

\* C10: a single upload_chunk call makes at most two send attempts (each frame
\* of the call makes one on entering its lock).
C10_AtMostTwoSends == \A t \in Tasks : kind[t] = "upload" => Len(stack[t]) <= 2

\* The calls of S can never proceed: each waits for a lock that a frame of a
\* call of S holds, and a frame gives its lock back only when its call returns.
Deadlocked(S) ==
  /\ S # {}
  /\ \A t \in S : pc[t] = "wait" /\ \E u \in S : want[t] \in RangeOf(stack[u])

\* C11: no upload_chunk call waits forever on a bot's lock after a rate-limit
\* signal: no set of upload_chunk calls is deadlocked, neither a call whose
\* retry re-selected the bot its own frame holds nor two calls that each
\* re-selected the other's bot.
C11_UploadNeverStuck ==
  \A S \in SUBSET Tasks : (\A t \in S : kind[t] = "upload") => ~Deadlocked(S)

\* C12: a rate-limited download_chunk call recovers: its retry on the same bot
\* is not left waiting for the lock that the call's own outer frame holds.
C12_DownloadRetryProceeds ==
  \A t \in Tasks :
    kind[t] = "download" /\ pc[t] = "wait" => want[t] \notin RangeOf(stack[t])

\* C13: stream_upload is all-or-nothing.  When it returns, no upload_chunk of
\* its chunks has raised and the list holds one descriptor of a stored document
\* for every chunk of the stream; once an upload_chunk has raised, stream_upload
\* does not return a list, and it raises only then.
C13_AllOrNothing ==
  /\ up_pc = "returned" /\ dl_pc = "idle" =>
       /\ \A t \in 1..Len(chunks_to_upload) : pc[t] = "done"
       /\ Len(chunks_metadata) = Len(chunks_to_upload)
       /\ \A i \in DOMAIN chunks_to_upload :
            /\ chunks_metadata[i].chunk_idx = chunks_to_upload[i].chunk_idx
            /\ chunks_metadata[i].file_id \in DOMAIN store
  /\ (\E t \in Tasks : kind[t] = "upload" /\ pc[t] = "raised") =>
       up_pc \in {"sequential", "gather", "raised"}
  /\ up_pc = "raised" => \E t \in Tasks : kind[t] = "upload" /\ pc[t] = "raised"

\* A parallel stream_upload has raised for the fault of one chunk after the
\* document of another chunk was stored, a third upload still being in flight.
C13_Witness ==
  /\ up_pc = "raised"
  /\ ParallelUploads(chunks_to_upload) > 1
  /\ \E t, u, v \in Tasks : pc[t] = "raised" /\ pc[u] = "done" /\ pc[v] = "net"

\* C14: when the download_chunk of chunk k raises, stream_download yields no
\* chunk of index k or higher, before or after; when the generator raises, it
\* has yielded exactly the chunks 0..k-1, in order, and the fetch that raised
\* is the one of position k.
C14_FaultStopsStream ==
  /\ \A k \in 0..(Len(chunks) - 1) :
       kind[DownloadTask(k)] = "download" /\ pc[DownloadTask(k)] = "raised" =>
         \A i \in DOMAIN yieldLog : yieldLog[i] < k
  /\ dl_pc = "raised" =>
       /\ kind[DownloadTask(Len(yieldLog))] = "download"
       /\ pc[DownloadTask(Len(yieldLog))] = "raised"
       /\ yieldLog = [i \in 1..Len(yieldLog) |-> i - 1]

\* The generator has raised after yielding a chunk, while the fetch of a later
\* chunk of the window had completed: its bytes are never yielded.
C14_Witness ==
  /\ dl_pc = "raised"
  /\ Len(yieldLog) >= 1
  /\ \E j \in pending_tasks : j > Len(yieldLog) /\ pc[DownloadTask(j)] = "done"

\* The chunks whose fetch has been started (a task was created for it, or
\* download_chunk was called for it) and that have not been yielded.
Unyielded ==
  {k \in 0..(Len(chunks) - 1) :
     /\ k \in pending_tasks \/ kind[DownloadTask(k)] = "download"
     /\ k \notin RangeOf(yieldLog)}

\* C17: in stream_download at most min(3, number of chunks) fetches are
\* started and not yet yielded.
C17_WindowBound == Cardinality(Unyielded) <= MinOf(DownloadWindow, Len(chunks))

\* A download of more chunks than the window has yielded a chunk and refilled
\* the window: three fetches are started and not yielded.
C17_Witness ==
  /\ Len(chunks) > DownloadWindow
  /\ Len(yieldLog) >= 1
  /\ Cardinality(Unyielded) = DownloadWindow

\* C18: backpressure.  A fetch is scheduled (its task created) only by a step
\* of the generator that the consumer's pull runs: the first window at the
\* first pull, and afterwards one fetch per pull that follows a yield, for the
\* chunk k whose predecessor k - window is the chunk just yielded.  No step
\* taken while the consumer holds a yielded chunk, or while the generator
\* waits for a fetch, schedules one.
C18_Backpressure ==
  [][\A k \in pending_tasks' \ pending_tasks :
       \/ dl_pc = "idle" /\ k < DownloadWindow
       \/ /\ dl_pc = "yielded" /\ dl_pc' # "yielded"
          /\ k >= DownloadWindow
          /\ yieldLog # <<>> /\ Last(yieldLog) = k - DownloadWindow
          /\ next_yield_index' = next_yield_index + 1
          /\ pending_tasks' \ pending_tasks = {k}]_vars

\* The consumer has pulled after a yield and the generator, having scheduled
\* the fetch of a chunk beyond the first window, waits for the next chunk.
C18_Witness ==
  /\ dl_pc = "await"
  /\ chunk_index > DownloadWindow
  /\ chunk_index - 1 \in pending_tasks
  /\ pc[DownloadTask(chunk_index - 1)] = "idle"

\* C19: with every fetch succeeding and the consumer pulling, stream_download
\* over the n stored references terminates, having yielded exactly n buffers,
\* the i-th being the bytes of the i-th reference, each document fetched
\* exactly once (for n = 0 it ends with nothing yielded).
C19_YieldsAllAndEnds ==
  <>(/\ dl_pc = "ended"
     /\ Len(chunks) = Len(store)
     /\ Len(yielded) = Len(chunks)
     /\ \A i \in DOMAIN chunks :
          /\ yielded[i] = store[chunks[i].file_id].bytes
          /\ store[chunks[i].file_id].fetches = 1)

\* A download of more chunks than the window, several of them through the same
\* bot, has ended with every chunk yielded.
C19_Witness ==
  /\ dl_pc = "ended"
  /\ Len(yielded) > DownloadWindow
  /\ bot_count < DownloadWindow
  /\ \A m \in DOMAIN store : store[m].fetches = 1

\* C20: once the consumer has abandoned the download, or the generator has
\* raised, no fetch it had started completes: the fetches in flight are
\* cancelled instead of being served by the transport.
C20_NoFetchAfterEnd ==
  [][\A k \in pending_tasks :
       dl_pc \in {"abandoned", "raised"} /\ pc[DownloadTask(k)] = "net" =>
         pc'[DownloadTask(k)] # "done"]_vars

\* The delete_chunk calls that returned True for message m.
Deleters(m) ==
  {t \in Tasks : kind[t] = "delete" /\ args[t].message_id = m /\ pc[t] = "done" /\ result[t].ok}

\* C15: a delete_chunk call makes one transport attempt (one frame, no sleep,
\* no retry) and never raises; a message is deleted exactly when one call
\* returned True for it, every other answer being returned as False; a call
\* that has returned holds no lock, so its bot's lock is taken only if a frame
\* of another call holds it.
C15_DeleteOnceNeverRaises ==
  /\ \A t \in Tasks :
       kind[t] = "delete" =>
         /\ pc[t] \in {"wait", "net", "done"}
         /\ Len(stack[t]) <= 1
         /\ pc[t] = "done" =>
              /\ stack[t] = <<>>
              /\ locked[args[t].bot_index] =>
                   \E u \in Tasks \ {t} : args[t].bot_index \in RangeOf(stack[u])
  /\ \A m \in DOMAIN store :
       Cardinality(Deleters(m)) = IF store[m].deleted THEN 1 ELSE 0

\* C16: delete_file asks the transport to delete each chunk of the file exactly
\* once, through the bot index stored with the chunk, whatever the outcome of
\* the other deletions (the chunks the loop is done with have one request, of
\* the stored bot; the one in progress at most that one; the others and the
\* documents of other files none); when the request has ended for a known file,
\* every chunk was attempted and the file's row and chunk rows are gone, the
\* rows of the other file (one chunk row per stored document) being kept.
C16_DeleteFileBestEffort ==
  /\ \A i \in DOMAIN del_chunks :
       LET requests == store[del_chunks[i].telegram_message_id].delete_requests
           once == <<del_chunks[i].telegram_bot_token_index>>
       IN IF i <= del_i THEN requests = once
          ELSE IF i = del_i + 1 THEN requests \in {<<>>, once}
          ELSE requests = <<>>
  /\ \A m \in DOMAIN store :
       (\A i \in DOMAIN del_chunks : del_chunks[i].telegram_message_id # m) =>
         store[m].delete_requests = <<>>
  /\ del_pc \notin {"idle", "deleting", "not_found"} =>
       /\ del_i = Len(del_chunks)
       /\ del_file \notin db_files
       /\ \A j \in DOMAIN db_chunks : db_chunks[j].file_id # del_file
       /\ \A f \in {1, 2} \ {del_file} : f \in db_files
       /\ Len(db_chunks) = Len(store) - Len(del_chunks)

\* A delete_file request has ended after the transport refused to delete an
\* early chunk and deleted a later one: the refused document stays on the
\* channel and the rows are gone.
C16_Witness ==
  /\ del_pc = "done"
  /\ \E i, j \in DOMAIN del_chunks :
       /\ i < j
       /\ ~store[del_chunks[i].telegram_message_id].deleted
       /\ store[del_chunks[j].telegram_message_id].deleted
  /\ del_file \notin db_files

\* A delete_chunk call, the only kind of call made so far, was answered with a
\* rate-limit signal and has returned False; its bot's lock is free.
C15_Witness ==
  /\ \A u \in Tasks : kind[u] \in {"none", "delete"}
  /\ retryAfterLeft < MaxRetryAfter
  /\ \E t \in Tasks :
       /\ kind[t] = "delete" /\ pc[t] = "done" /\ ~result[t].ok
       /\ ~locked[args[t].bot_index]

\* ----------------------------------------------- claims on the cache

\* The step is the call op(key[1], key[2]) on the cache, and lastOp' holds
\* what it returned.
Returned(op, key) ==
  /\ lastOp'.op = op
  /\ Key(lastOp'.storage_id, lastOp'.user_id) = key
  /\ now' = now

\* C21: get(r, p) returns the stored (granted, role) only if the entry's age
\* is strictly below the TTL; at an age of the TTL or more it returns none
\* and the entry is removed.
C21_GetExpiry ==
  [][\A key \in Keys :
       Returned("get", key) =>
         /\ lastOp'.ret # None =>
              /\ key \in DOMAIN cache
              /\ now - cache[key].cached_at < ttl
              /\ lastOp'.ret = <<cache[key].has_access, cache[key].role>>
         /\ (key \in DOMAIN cache /\ now - cache[key].cached_at >= ttl) =>
              /\ lastOp'.ret = None
              /\ key \notin DOMAIN cache'
    ]_vars

\* A get found an entry exactly one TTL old, returned none and removed it.
C21_Witness ==
  /\ lastOp.op = "get"
  /\ lastOp.found_at # NoIndex
  /\ now - lastOp.found_at = ttl
  /\ lastOp.ret = None
  /\ Key(lastOp.storage_id, lastOp.user_id) \notin DOMAIN cache

\* C22: a get(r, p) made less than one TTL after set(r, p, g, role), with no
\* set, invalidate or clear on the key in between, returns exactly (g, role),
\* whatever entry the key held before the set.
C22_SetThenGet ==
  [][\A key \in Keys :
       (Returned("get", key) /\ key \in DOMAIN written /\ now - written[key].at < ttl) =>
         lastOp'.ret = written[key].ret
    ]_vars

\* A set was made after the clock had advanced, and a get made later still,
\* within the TTL of that set, returned the pair the set stored.
C22_Witness ==
  /\ lastOp.op = "get"
  /\ lastOp.ret # None
  /\ lastOp.found_at > 0
  /\ \E key \in Keys :
       /\ key = Key(lastOp.storage_id, lastOp.user_id)
       /\ key \in DOMAIN written
       /\ written[key].ret = lastOp.ret
       /\ written[key].at = lastOp.found_at
       /\ now > written[key].at

\* The step is the call invalidate(storage_id, user_id) on the cache.
Invalidated(storage_id, user_id) ==
  /\ lastOp'.op = "invalidate"
  /\ lastOp'.storage_id = storage_id
  /\ lastOp'.user_id = user_id
  /\ now' = now

\* C23: invalidate(r) without a principal removes every entry of resource r
\* and leaves every entry of the other resources unchanged.
C23_InvalidateStorage ==
  [][\A storage_id \in Storages :
       Invalidated(storage_id, NoIndex) =>
         /\ DOMAIN cache' = {k \in DOMAIN cache : k[1] # storage_id}
         /\ \A k \in DOMAIN cache' : cache'[k] = cache[k]
    ]_vars

\* invalidate(r) found entries of two principals of r; none is left, and an
\* entry of another resource is still there.
C23_Witness ==
  /\ lastOp.op = "invalidate"
  /\ lastOp.user_id = NoIndex
  /\ Cardinality(lastOp.held) = 2
  /\ lastOp.held \cap DOMAIN cache = {}
  /\ \E k \in DOMAIN cache : k[1] # lastOp.storage_id

\* C24: invalidate(r, p) removes only the entry of (r, p): the entries of the
\* other principals of r and of the other resources are unchanged, and on an
\* absent key the call changes nothing and returns normally.
C24_InvalidateKey ==
  [][\A storage_id \in Storages : \A user_id \in Users :
       Invalidated(storage_id, user_id) =>
         /\ DOMAIN cache' = DOMAIN cache \ {Key(storage_id, user_id)}
         /\ \A k \in DOMAIN cache' : cache'[k] = cache[k]
         /\ lastOp'.ret = None
         /\ Key(storage_id, user_id) \notin DOMAIN cache => cache' = cache
    ]_vars

\* invalidate(r, p) found entries of two principals of r: that of p is gone,
\* the other one and an entry of another resource are still there.
C24_Witness ==
  /\ lastOp.op = "invalidate"
  /\ lastOp.user_id \in Users
  /\ Cardinality(lastOp.held) = 2
  /\ lastOp.held \cap DOMAIN cache = lastOp.held \ {Key(lastOp.storage_id, lastOp.user_id)}
  /\ \E k \in DOMAIN cache : k[1] # lastOp.storage_id

\* C38: get on an unexpired entry leaves the whole cache unchanged, the
\* entry's timestamp included; an entry is gone one TTL after its last set
\* however often it was read in between; and a get on one key never changes
\* the entry of another key.
C38_GetFrame ==
  [][\A key \in Keys :
       Returned("get", key) =>
         /\ lastOp'.ret # None => cache' = cache
         /\ (key \in DOMAIN written /\ now - written[key].at >= ttl) =>
              /\ lastOp'.ret = None
              /\ key \notin DOMAIN cache'
         /\ \A k \in Keys \ {key} :
              /\ k \in DOMAIN cache' <=> k \in DOMAIN cache
              /\ k \in DOMAIN cache => cache'[k] = cache[k]
    ]_vars

\* A get read an entry that was set before the clock advanced and is still
\* unexpired: the entry is there with the timestamp of its set, next to the
\* entry of another key.
C38_Witness ==
  /\ lastOp.op = "get"
  /\ lastOp.ret # None
  /\ now > lastOp.found_at
  /\ \E key \in Keys :
       /\ key = Key(lastOp.storage_id, lastOp.user_id)
       /\ key \in DOMAIN cache
       /\ cache[key].cached_at = lastOp.found_at
       /\ DOMAIN cache \ {key} # {}

\* ------------------------------ claims on check_storage_permission

\* The positions of a request inside the full check of check_storage_permission
\* (lines 42-81), and the rejections it ends with.
FullCheck == {"stale", "lookup", "set_owner", "query", "set", "not_found", "forbidden"}

\* C25 as stated: a request whose cache.get returned a grant with a sufficient
\* role is authorized by that hit alone: it never enters the full check, which
\* modifies the cache and queries the permission table, and is never rejected.
C25_HitAlwaysAuthorizes ==
  \A t \in Threads :
    Sufficient(rq[t].cached, rq[t].required_role) => rq_pc[t] \notin FullCheck

\* C25, amended: on a cache hit with a sufficient role for a storage that
\* still exists when the check looks it up, check_storage_permission returns
\* the storage without querying the permission table and without modifying
\* the cache.
C25_HitAuthorizes ==
  [][\A t \in Threads :
       /\ (Free(t) /\ rq_pc'[t] = "hit") => cache' = cache
       /\ (rq_pc[t] = "hit" /\ rq_pc'[t] # "hit" /\ StorageExists(rq[t].storage_id)) =>
            /\ rq_pc'[t] = AfterCheck(t)
            /\ cache' = cache
            /\ rq'[t].permission = None
    ]_vars

\* User 2 asked for what needs the editor role, the cache held a grant of
\* that role, and the request was authorized without a query.
C25_Witness ==
  /\ rq_pc[2] = "returned"
  /\ rq[2].endpoint = "check"
  /\ rq[2].required_role = "editor"
  /\ rq[2].cached = <<TRUE, "editor">>
  /\ rq[2].permission = None

\* The entry the cache holds for the request of thread t after the step.
EntryAfter(t) == cache'[Key(rq[t].storage_id, rq[t].user_id)]

\* C26: after a cache miss on an existing storage, check_storage_permission
\* leaves a cache entry that records what it found in the database:
\* (true, ADMIN) for the owner, (true, role) for a user with a permission of
\* that role, also when the role is too low and the request is rejected, and
\* granted = false for a user without a permission.
C26_MissIsCached ==
  [][\A t \in Threads :
       (rq[t].cached = None /\ rq_pc[t] \in {"set_owner", "set"} /\ rq_pc'[t] # rq_pc[t]) =>
         /\ Key(rq[t].storage_id, rq[t].user_id) \in DOMAIN cache'
         /\ EntryAfter(t).cached_at = now
         /\ rq_pc[t] = "set_owner" =>
              /\ EntryAfter(t).has_access
              /\ EntryAfter(t).role = "admin"
         /\ (rq_pc[t] = "set" /\ rq[t].permission # None) =>
              /\ EntryAfter(t).has_access
              /\ EntryAfter(t).role = rq[t].permission[1]
         /\ (rq_pc[t] = "set" /\ rq[t].permission = None) =>
              /\ ~EntryAfter(t).has_access
              /\ rq_pc'[t] = "forbidden"
    ]_vars

\* After a miss, user 2, who holds the viewer role, asked for what needs the
\* editor role: the request was rejected and the cache holds (true, viewer).
C26_Witness ==
  /\ rq_pc[2] = "forbidden"
  /\ rq[2].cached = None
  /\ rq[2].required_role = "editor"
  /\ rq[2].permission = <<"viewer">>
  /\ Key(1, 2) \in DOMAIN cache
  /\ cache[Key(1, 2)] = [has_access |-> TRUE, role |-> "viewer", cached_at |-> now]

\* C27: while an unexpired granted = false entry exists for (storage, user),
\* a further check_storage_permission for that pair is denied without
\* querying the permission table: a request whose cache.get returned a
\* denial never reaches the permission query and is never authorized.
C27_NegativeEntryDenies ==
  \A t \in Threads :
    (rq[t].cached # None /\ ~rq[t].cached[1]) =>
      rq_pc[t] \notin {"query", "set", "returned", "mutate", "invalidate"}

\* The request of thread t had a cache hit with a sufficient role.
HadHit(t) == Sufficient(rq[t].cached, rq[t].required_role)

\* C36: a cached grant never authorizes access to a storage that no longer
\* exists. A request with a cache hit of sufficient role that finds the
\* storage deleted is not authorized by the hit; its next step removes every
\* cache entry of that storage, and the request then fails with not-found.
C36_DeletedStorageNotFound ==
  [][\A t \in Threads :
       /\ (rq_pc[t] = "hit" /\ rq_pc'[t] # "hit" /\ ~StorageExists(rq[t].storage_id)) =>
            rq_pc'[t] = "stale"
       /\ (rq_pc[t] = "stale" /\ rq_pc'[t] # "stale") =>
            /\ rq_pc'[t] = "lookup"
            /\ \A k \in DOMAIN cache' : k[1] # rq[t].storage_id
       /\ (HadHit(t) /\ rq_pc[t] = "lookup") =>
            /\ ~StorageExists(rq[t].storage_id)
            /\ rq_pc'[t] # "lookup" => rq_pc'[t] = "not_found"
    ]_vars

\* The owner's request hit a grant cached before the storage was deleted and
\* failed with not-found; the cache holds no entry of the storage, where the
\* database no longer has it.
C36_Witness ==
  \E t \in Threads :
    /\ HadHit(t)
    /\ rq_pc[t] = "not_found"
    /\ ~StorageExists(rq[t].storage_id)
    /\ \A k \in DOMAIN cache : k[1] # rq[t].storage_id

\* What the durable store alone answers (the full check of lines 42-81): the
\* storage exists and the user is its owner or holds a permission whose role
\* ranks at least the required role.
StoreAuthorizes(storage_id, user_id, required_role) ==
  /\ StorageExists(storage_id)
  /\ \/ db_storages[storage_id] = user_id
     \/ /\ Key(storage_id, user_id) \in DOMAIN db_permissions
        /\ RoleLevel(db_permissions[Key(storage_id, user_id)]) >= RoleLevel(required_role)

\* The step ends the check_storage_permission call of thread t.
CheckEnds(t) ==
  /\ rq_pc[t] \in {"hit", "lookup", "set_owner", "set"}
  /\ rq_pc'[t] \in {"returned", "mutate", "not_found", "forbidden"}

\* C34: when checks, grants, updates and revokes are executed one at a time,
\* with any passage of time between them, check_storage_permission with the
\* cache authorizes a (storage, user, required role) request exactly when the
\* durable store alone would.
C34_CacheEquivalent ==
  [][\A t \in Threads :
       CheckEnds(t) =>
         (rq_pc'[t] \in {"returned", "mutate"}
            <=> StoreAuthorizes(rq[t].storage_id, rq[t].user_id, rq[t].required_role))
    ]_vars

\* The owner's last request was a revoke that removed the permission of
\* user 2 and returned; after it user 2 asked for what needs the lowest role,
\* missed the cache and was denied, and the cache holds that denial.
C34_Witness ==
  /\ rq_pc[1] = "returned"
  /\ rq[1].endpoint = "revoke"
  /\ rq_pc[2] = "forbidden"
  /\ rq[2].required_role = "viewer"
  /\ rq[2].cached = None
  /\ Key(1, 2) \in DOMAIN cache
  /\ ~cache[Key(1, 2)].has_access
  /\ cache[Key(1, 2)].cached_at = now
  /\ now > 0

\* The level of the role the last request of thread r left to its target: a
\* revoke leaves none, an update the role it wrote.
Remaining(r) == IF rq[r].endpoint = "revoke" THEN 0 ELSE RoleLevel(rq[r].role)

\* The last request of thread r was a revoke_permission or update_permission
\* on (storage_id, user_id), and it has returned.
ChangeReturned(r, storage_id, user_id) ==
  /\ rq_pc[r] = "returned"
  /\ rq[r].endpoint \in {"revoke", "update"}
  /\ rq[r].storage_id = storage_id
  /\ rq[r].target = user_id

\* C35: once revoke_permission, or an update_permission that lowers the role,
\* has returned, a check_storage_permission call that starts afterwards is
\* not authorized on the strength of the role that was taken away: its
\* cache.get gives no grant of a role above the one that remains, whatever
\* checks of the same storage and user were in progress during the change.
C35_RevokeIsFinal ==
  [][\A r \in Threads : \A t \in Threads \ {r} :
       (/\ Free(t)
        /\ rq_pc'[t] = "hit"
        /\ ChangeReturned(r, rq'[t].storage_id, rq'[t].user_id)) =>
         RoleLevel(rq'[t].required_role) <= Remaining(r)
    ]_vars

\* ------------------------------------------ claims on the worker pool

\* C28: a worker's lock is held only while that worker's network call is in
\* flight: an upload_chunk or download_chunk call holds no lock while it
\* sleeps out a rate limit, and never holds two locks at once.
C28_LockOnlyInFlight ==
  \A t \in Tasks :
    kind[t] \in {"upload", "download"} =>
      /\ pc[t] = "sleep" => stack[t] = <<>>
      /\ Cardinality(RangeOf(stack[t])) <= 1

\* The bot whose lock call t goes for after the step: the one get_bot returned.
BotAfter(t) == IF pc'[t] = "net" THEN Last(stack'[t]) ELSE want'[t]

\* What get_bot(index) must have done in the step.
GetBotFrame(t, index) ==
  IF index # NoIndex /\ 0 <= index /\ index < bot_count
    THEN /\ BotAfter(t) = index
         /\ current_index' = current_index
    ELSE /\ BotAfter(t) = current_index
         /\ current_index' = (current_index + 1) % bot_count

\* C30: get_bot with a valid explicit index i returns worker i and leaves the
\* cursor unchanged; with no index or one out of range it returns the worker
\* at the cursor and advances the cursor by exactly one modulo the number of
\* workers; the cursor is always in [0, N).  Checked on every step that calls
\* get_bot: the start of a call and the retry after a rate limit.
C30_GetBotFrame ==
  [][/\ current_index \in Bots /\ current_index' \in Bots
     /\ \A t \in Tasks :
          /\ (pc[t] = "idle" /\ pc'[t] # "idle") => GetBotFrame(t, args'[t].bot_index)
          /\ (pc[t] = "sleep" /\ pc'[t] # "sleep") => GetBotFrame(t, RetryIndex(t))
    ]_vars

\* On several bots, one call was given a valid index that is not at the
\* cursor and has that bot, another was given an index out of range and has
\* the bot that was at the cursor, which has advanced by one.
C30_Witness ==
  /\ bot_count >= 2
  /\ \E t, u \in Tasks :
       /\ kind[t] = "upload" /\ pc[t] = "net"
       /\ args[t].bot_index \in Bots
       /\ stack[t] = <<args[t].bot_index>>
       /\ kind[u] = "upload" /\ pc[u] = "net"
       /\ args[u].bot_index = bot_count
       /\ Len(stack[u]) = 1
       /\ current_index = (stack[u][1] + 1) % bot_count
       /\ current_index = args[t].bot_index

\* ------------------------------------------------ claims on upload_file

\* C29: when stream_upload raises, upload_file leaves no record of the upload
\* in the database: the raise is handled at once, the file record created
\* before the upload is deleted and no chunk record is stored.
C29_FailureLeavesNoRecord ==
  /\ up_pc = "raised" => uf_pc = "failed"
  /\ uf_pc = "failed" =>
       /\ uf_file \notin db_files
       /\ FileChunksOf(uf_file) = <<>>

\* An upload of several chunks has failed after a chunk of it was sent.
C29_Witness ==
  /\ uf_pc = "failed"
  /\ Len(chunks_to_upload) >= 2
  /\ Len(store) >= 1

\* ---------------------------------------------- claims on stream_upload

\* The upload_chunk calls of stream_upload that have started and not ended.
UploadsInProgress == {t \in Tasks : kind[t] = "upload" /\ pc[t] \in {"wait", "net", "sleep"}}

\* C31: with at most one worker or at most one chunk stream_upload uploads
\* sequentially: the upload of chunk i+1 starts only after the upload of
\* chunk i has completed, at most one upload is in progress at any time, and
\* the descriptors are appended in index order.
C31_SequentialUpload ==
  (up_pc # "collect" /\ dl_pc = "idle" /\ (bot_count <= 1 \/ Len(chunks_to_upload) <= 1)) =>
    /\ \A i \in 1..(Len(chunks_to_upload) - 1) :
         pc[UploadTask(i)] # "idle" => pc[UploadTask(i - 1)] = "done"
    /\ Cardinality(UploadsInProgress) <= 1
    /\ \A i \in DOMAIN chunks_metadata : chunks_metadata[i].chunk_idx = i - 1
    /\ \A i \in 0..(Len(chunks_to_upload) - 1) :
         pc[UploadTask(i)] = "done" /\ up_pc = "sequential" => Len(chunks_metadata) >= i

\* On a single bot the upload of the second chunk of several is in flight,
\* the descriptor of the first one appended.
C31_Witness ==
  /\ up_pc = "sequential"
  /\ bot_count = 1
  /\ Len(chunks_to_upload) >= 3
  /\ Len(chunks_metadata) = 1
  /\ pc[UploadTask(1)] = "net"

\* C32: with several workers and several chunks stream_upload starts one
\* upload task per chunk, whatever the number of workers, all of them before
\* any of them completes, and returns only after every task has completed;
\* the number of transport sends in flight never exceeds the number of workers.
C32_ParallelUpload ==
  (up_pc # "collect" /\ dl_pc = "idle" /\ bot_count >= 2 /\ Len(chunks_to_upload) >= 2) =>
    /\ up_pc = "dispatch" =>
         \A i \in 0..(Len(chunks_to_upload) - 1) : pc[UploadTask(i)] \notin {"done", "raised"}
    /\ up_pc \in {"gather", "returned", "raised"} =>
         \A i \in 0..(Len(chunks_to_upload) - 1) : pc[UploadTask(i)] # "idle"
    /\ up_pc = "returned" =>
         \A i \in 0..(Len(chunks_to_upload) - 1) : pc[UploadTask(i)] = "done"
    /\ Cardinality({t \in Tasks : pc[t] = "net"}) <= bot_count

\* gather is awaited with more tasks than bots: every bot has a send in
\* flight and a task waits for a lock.
C32_Witness ==
  /\ up_pc = "gather"
  /\ bot_count >= 2
  /\ Len(chunks_to_upload) > bot_count
  /\ Cardinality({t \in Tasks : pc[t] = "net"}) = bot_count
  /\ \E t \in Tasks : pc[t] = "wait"

\* The upload tasks that have called get_bot.
StartedUploads == {i \in 0..(Len(chunks_to_upload) - 1) : pc[UploadTask(i)] # "idle"}

\* The cursor value when the upload started, no retry having moved the cursor.
CursorAtStart == (current_index + bot_count * MaxSize - Cardinality(StartedUploads)) % bot_count

\* The bot the upload of chunk i was given by get_bot; NoIndex once the call
\* has raised.
BotOfUpload(i) ==
  LET t == UploadTask(i) IN
  IF pc[t] = "wait" /\ stack[t] = <<>> THEN want[t]
  ELSE IF stack[t] # <<>> THEN stack[t][1]
  ELSE IF pc[t] = "done" THEN result[t].bot_index
  ELSE NoIndex

\* The number of chunks of the returned list sent through bot w.
ChunksOfBot(w) == Cardinality({i \in DOMAIN chunks_metadata : chunks_metadata[i].bot_index = w})

\* C33: on the parallel path, with no rate-limit signal and no other user of
\* the pool, chunk i is sent through worker (c + i) mod N, c being the cursor
\* when the upload starts, so the numbers of chunks of any two workers differ
\* by at most one.
C33_RoundRobinAssignment ==
  (/\ up_pc \in {"dispatch", "gather", "returned", "raised"}
   /\ dl_pc = "idle"
   /\ bot_count >= 2 /\ Len(chunks_to_upload) >= 2
   /\ retryAfterLeft = MaxStreamRetryAfter) =>
    /\ \A i \in StartedUploads :
         BotOfUpload(i) \in {NoIndex, (CursorAtStart + i) % bot_count}
    /\ up_pc = "returned" =>
         /\ \A i \in DOMAIN chunks_metadata :
              /\ chunks_metadata[i].bot_index = (CursorAtStart + i - 1) % bot_count
              /\ store[chunks_metadata[i].file_id].bot = chunks_metadata[i].bot_index
         /\ \A w, v \in Bots : ChunksOfBot(w) - ChunksOfBot(v) <= 1

\* A parallel upload without rate limit has returned, of more chunks than
\* bots, the count not a multiple of the number of bots, begun at a cursor
\* other than 0.
C33_Witness ==
  /\ up_pc = "returned"
  /\ retryAfterLeft = MaxStreamRetryAfter
  /\ bot_count >= 2
  /\ Len(chunks_metadata) > bot_count
  /\ Len(chunks_metadata) % bot_count # 0
  /\ chunks_metadata[1].bot_index # 0

\* ---------------------------------------------- claims on download_file

\* C37: every file whose upload_file request succeeded can be downloaded: as
\* long as its metadata is not deleted, download_file does not fail for it
\* and, when the stream has ended, has streamed the file's content, for every
\* file size including zero bytes.
C37_UploadedIsDownloadable ==
  (uf_pc = "returned" /\ uf_file \in db_files) =>
    /\ dl_pc \notin {"not_found", "no_chunks"}
    /\ dl_pc = "ended" => Concat(yielded) = data

\* ------------------------------------------ claims on the activity logger

\* the activities on the queue, oldest first, without the shutdown signal
Pending == SelectSeq(activity_queue, LAMBDA item : item # Sentinel)

\* the activity the consumer has taken and not yet written
InHand == IF activity_data = Sentinel THEN <<>> ELSE <<activity_data>>

\* the sequence is in the order of the calls, without repetition
InCallOrder(seq) == \A i, j \in DOMAIN seq : i < j => seq[i] < seq[j]

C40_StopNeverStuck ==
  ~(stop_pc = "put" /\ worker_pc = "done" /\ Len(activity_queue) = MaxQueue)

====
